---- MODULE Spec2Model ----
(***************************************************************************)
(* Camera-mode orchestrator of the viewer (src/src/camera-manager.ts).     *)
(*                                                                         *)
(* Units of the model.  Time is counted in ticks of 0.1 s, so that the     *)
(* transition timer's upper limit 1 is TimerOne = 10 ticks and the settle  *)
(* delay of 0.2 s is 2 ticks.  The scene is one-dimensional: a position    *)
(* is an integer, an orientation is the angle of the forward vector in     *)
(* half turns (0 = +x, AngleHalfTurn = -x) and a field of view is          *)
(* counted in units of 30 degrees.  The movement thresholds (1e-3, 0.2     *)
(* degrees, 0.01 degrees) are below one unit, so they are 0 in these       *)
(* units.                                                                  *)
(***************************************************************************)
EXTENDS Integers, Sequences, FiniteSets, TLC

VARIABLES
    \* configuration, fixed by the constructor
    authoredTrack,        \* settings.animTracks is non-empty and startMode is 'animTrack'
    bbox,                 \* bounding box of the content: [center, half]
    transformFrames,      \* transforms.frames as loaded
    transforms,           \* transforms.w, transforms.fl_x, transforms.camera_angle_x
    geoXform,             \* the scene re-orientation candidates of geoXform
    preparedTransformFrames,  \* sequence of prepared frames (frame, camera)
    \* observed application state (global.state)
    cameraMode, animationPaused, animationTime,
    \* CameraManager
    camera,               \* the displayed pose
    target,               \* the pose the active controller writes
    from,                 \* the pose a transition started from
    fromMode,             \* the remembered previous mode
    transitionTimer,
    previous,             \* previousPosition / previousForward / previousFov
    wasMoving, settledTime,
    transformFrameIndex,
    \* controller-private state
    orbit, fly, cursor,
    \* observation
    log,                  \* calls made and events fired by the last handler
    error,                \* some handler has thrown
    \* the user interface and the XR session
    ui,                   \* closure variables of initUI and the classes it sets
    xr                    \* XrControllers.controllers, the scene, and the maps of initXr

vars == <<authoredTrack, bbox, transformFrames, transforms, geoXform,
          preparedTransformFrames, cameraMode,
          animationPaused, animationTime, camera, target, from, fromMode,
          transitionTimer, previous, wasMoving, settledTime,
          transformFrameIndex, orbit, fly, cursor, log, error, ui, xr>>

\* ---------------------------------------------------------------- bounds
MaxDelta == 2
MaxFrames == 2
MaxInputFrames == 3
MaxCandidates == 2
MaxFactor == 3

\* ------------------------------------------------------------- constants
transitionSpeed == 1
TimerOne == 10
settleDelaySeconds == 2
positionDeltaThreshold == 0
angleDeltaThreshold == 0
fovDeltaThreshold == 0
AngleHalfTurn == 1

Modes == {"orbit", "fly", "anim"}

Min(a, b) == IF a < b THEN a ELSE b
Max(a, b) == IF a < b THEN b ELSE a
Abs(a) == IF a < 0 THEN -a ELSE a

Pose(p, a, f) == [pos |-> p, ang |-> a, fov |-> f]

\* settings.cameras[0].initial
Camera0 == [position |-> 1, target |-> 0, fov |-> 2]

\* ------------------------------------------------------- pose primitive
\* Camera.look(position, target): the forward vector points from position
\* to target.
look(position, lookTarget, f) ==
    Pose(position, IF lookTarget >= position THEN 0 ELSE AngleHalfTurn, f)

\* easeOut(t) = 1 - (1 - t)^2, as a numerator over TimerOne * TimerOne.
easeOut(t) == TimerOne * TimerOne - (TimerOne - t) * (TimerOne - t)

mix(a, b, e) == (a * (TimerOne * TimerOne - e) + b * e) \div (TimerOne * TimerOne)

\* Camera.lerp(a, b, t): interpolation of position, orientation and fov.
lerp(a, b, e) == Pose(mix(a.pos, b.pos, e), mix(a.ang, b.ang, e), mix(a.fov, b.fov, e))

createCamera(position, lookTarget, f) == look(position, lookTarget, f)

\* sceneSize / sin(fov / 2): the initial fov is 60 degrees, sin(30 deg) = 1/2.
createFrameCamera(box, f) ==
    LET sceneSize == box.half
        distance == 2 * sceneSize
    IN  createCamera(box.center + distance, box.center, f)

containsPoint(box, p) == Abs(p - box.center) <= box.half

resetCamera == createCamera(Camera0.position, Camera0.target, Camera0.fov)
frameCamera == createFrameCamera(bbox, Camera0.fov)

isObjectExperience == ~containsPoint(bbox, resetCamera.pos)

getAnimTrack_AuthoredOnly == IF authoredTrack THEN "authored" ELSE "none"

\* getAnimTrack: the authored track, else a generated rotate track for an
\* object experience, else none.
getAnimTrack ==
    IF authoredTrack THEN "authored"
    ELSE IF isObjectExperience THEN "rotate"
    ELSE "none"

hasAnimation == getAnimTrack # "none"

\* controllers[cameraMode] is null for 'anim' without a track.
hasController(mode) == mode # "anim" \/ hasAnimation

\* ---------------------------------------------------------- controllers
\* The animation track: a pose per cursor tick; the cursor loops.
TrackPositions == <<0, 2>>
animationDuration == Len(TrackPositions)
trackPose(c) == look(TrackPositions[c + 1], bbox.center, Camera0.fov)

\* The controller's private state seen as a (position, orientation) pair.
PosAng(p) == [pos |-> p.pos, ang |-> p.ang]

MaxPos == 2

\* the state every handler reads and writes
State ==
    [cameraMode |-> cameraMode, animationPaused |-> animationPaused,
     animationTime |-> animationTime, camera |-> camera, target |-> target,
     from |-> from, fromMode |-> fromMode, transitionTimer |-> transitionTimer,
     previous |-> previous, wasMoving |-> wasMoving, settledTime |-> settledTime,
     transformFrameIndex |-> transformFrameIndex, orbit |-> orbit, fly |-> fly,
     cursor |-> cursor, log |-> <<>>, thrown |-> FALSE, ui |-> ui]

\* f applied to the value of the expression v
Value(v, f(_)) == CHOOSE r \in {f(x) : x \in {v}} : TRUE

NoPose == Pose(-1, -1, -1)
Call(op, mode, pose, index) ==
    [op |-> op, mode |-> mode, pose |-> pose, index |-> index,
     count |-> -1, filePath |-> [some |-> FALSE, val |-> <<>>],
     colmapImId |-> [some |-> FALSE, val |-> 0]]
Note(s, entry) == [s EXCEPT !.log = Append(@, entry)]

\* A TypeError (a method called on the null anim controller): the rest of
\* the running handler is skipped.
Throw(s) == [Note(s, Call("throw", "", NoPose, -1)) EXCEPT !.thrown = TRUE]

\* controller.onEnter(pose): take over the inherited pose.
onEnter(s, mode, pose) ==
    LET s1 == Note(s, Call("onEnter", mode, pose, -1))
    IN  CASE mode = "orbit" -> [s1 EXCEPT !.orbit = PosAng(pose)]
          [] mode = "fly"   -> [s1 EXCEPT !.fly = PosAng(pose)]
          [] OTHER          -> s1

\* controller.onExit(pose): no state to clean up.
onExit(s, mode, pose) == Note(s, Call("onExit", mode, pose, -1))

\* OrbitController.goto(pose)
goto(s, pose) == [Note(s, Call("goto", "orbit", pose, -1)) EXCEPT !.orbit = PosAng(pose)]

clampPos(p) == Max(0, Min(MaxPos, p))

\* controller.update(dt, frame, target): advance by dt, write the target.
controllerUpdate(s, mode, dt, move) ==
    CASE mode = "orbit" ->
           LET o == [s.orbit EXCEPT !.pos = clampPos(@ + move * dt)]
           IN  [s EXCEPT !.orbit = o, !.target = Pose(o.pos, o.ang, s.target.fov)]
      [] mode = "fly" ->
           LET o == [s.fly EXCEPT !.pos = clampPos(@ + move * dt)]
           IN  [s EXCEPT !.fly = o, !.target = Pose(o.pos, o.ang, s.target.fov)]
      [] OTHER ->
           LET c == (s.cursor + dt) % animationDuration
           IN  [s EXCEPT !.cursor = c, !.target = trackPose(c)]

\* ------------------------------------------------- transform-frame dataset
\* An optional value: file_path and colmap_im_id may be absent.
NoPath == [some |-> FALSE, val |-> <<>>]
NoId == [some |-> FALSE, val |-> 0]
Some(v) == [some |-> TRUE, val |-> v]

\* A file path is a sequence of characters.  Alphabet lists the characters
\* in collation order.
Alphabet == <<"_", ".", "/", "\\", "0", "1", "2", "3", "4", "5", "6", "7", "8", "9",
              "a", "b", "e", "f", "F", "m", "o", "p", "r">>
Digits == <<"0", "1", "2", "3", "4", "5", "6", "7", "8", "9">>
IndexIn(seq, x) == CHOOSE i \in 1..Len(seq) : seq[i] = x
IsDigit(ch) == \E i \in 1..Len(Digits) : Digits[i] = ch
Lower(ch) == IF ch = "F" THEN "f" ELSE ch
FramePrefix == <<"f", "r", "a", "m", "e", "_">>

\* Number.parseInt(digits, 10)
RECURSIVE parseInt(_)
parseInt(digits) ==
    IF digits = <<>> THEN 0
    ELSE 10 * parseInt(SubSeq(digits, 1, Len(digits) - 1))
         + (IndexIn(Digits, digits[Len(digits)]) - 1)

\* A number is finite or Number.POSITIVE_INFINITY.
Infinity == [inf |-> TRUE, n |-> 0]
Num(k) == [inf |-> FALSE, n |-> k]

\* filePath.match(/frame_(\d+)(?:\.[^./\\]+)?$/i): the digit run that follows
\* "frame_" and ends the path, or ends it but for one extension; of several
\* matches the leftmost.
extractFrameSortKey(frame) ==
    LET filePath == IF frame.file_path.some THEN frame.file_path.val ELSE <<>>
        n == Len(filePath)
        extensionAt == {k \in 1..(n - 1) :
                          /\ filePath[k] = "."
                          /\ \A j \in (k + 1)..n : filePath[j] \notin {".", "/", "\\"}}
        ends == {n} \cup {k - 1 : k \in extensionAt}
        first(e) == CHOOSE i \in 1..e :
                        /\ \A j \in i..e : IsDigit(filePath[j])
                        /\ i = 1 \/ ~IsDigit(filePath[i - 1])
        matches(e) ==
            /\ e >= 1 /\ IsDigit(filePath[e])
            /\ first(e) > Len(FramePrefix)
            /\ \A j \in 1..Len(FramePrefix) :
                   Lower(filePath[first(e) - Len(FramePrefix) - 1 + j]) = FramePrefix[j]
        matching == {e \in ends : matches(e)}
    IN  IF matching = {} THEN Infinity
        ELSE LET e == CHOOSE x \in matching : \A y \in matching : first(x) <= first(y)
             IN  Num(parseInt(SubSeq(filePath, first(e), e)))

\* a - b of two sort keys: NaN for Infinity - Infinity, else its sign
minus(a, b) ==
    IF a.inf /\ b.inf THEN [nan |-> TRUE, sign |-> 0]
    ELSE IF a.inf THEN [nan |-> FALSE, sign |-> 1]
    ELSE IF b.inf THEN [nan |-> FALSE, sign |-> -1]
    ELSE [nan |-> FALSE, sign |-> IF a.n < b.n THEN -1 ELSE IF a.n > b.n THEN 1 ELSE 0]

\* a.localeCompare(b): -1, 0 or 1 by the collation order of the characters
RECURSIVE localeCompare(_, _)
localeCompare(a, b) ==
    IF a = <<>> THEN (IF b = <<>> THEN 0 ELSE -1)
    ELSE IF b = <<>> THEN 1
    ELSE IF a[1] = b[1] THEN localeCompare(Tail(a), Tail(b))
    ELSE IF IndexIn(Alphabet, a[1]) < IndexIn(Alphabet, b[1]) THEN -1 ELSE 1

pathOf(frame) == IF frame.file_path.some THEN frame.file_path.val ELSE <<>>

\* the comparator handed to sort
compareFrames(a, b) ==
    LET byFrameNumber == minus(a.sort_key, b.sort_key)
    IN  IF byFrameNumber.nan \/ byFrameNumber.sign # 0 THEN byFrameNumber
        ELSE [nan |-> FALSE, sign |-> localeCompare(pathOf(a), pathOf(b))]

\* Array.prototype.sort: a comparator result of NaN counts as +0, and the
\* sort is stable.
SortCompare(a, b) ==
    LET v == compareFrames(a, b) IN IF v.nan THEN 0 ELSE v.sign

RECURSIVE insert(_, _)
insert(sorted, x) ==
    IF sorted = <<>> THEN <<x>>
    ELSE IF SortCompare(sorted[Len(sorted)], x) <= 0 THEN Append(sorted, x)
    ELSE Append(insert(SubSeq(sorted, 1, Len(sorted) - 1), x), sorted[Len(sorted)])

RECURSIVE sort(_)
sort(frames) ==
    IF frames = <<>> THEN <<>>
    ELSE insert(sort(SubSeq(frames, 1, Len(frames) - 1)), frames[Len(frames)])

withSortKey(frame) ==
    [file_path |-> frame.file_path, colmap_im_id |-> frame.colmap_im_id,
     transform_matrix |-> frame.transform_matrix, sort_key |-> extractFrameSortKey(frame)]

RECURSIVE mapSortKey(_)
mapSortKey(frames) ==
    IF frames = <<>> THEN <<>> ELSE <<withSortKey(Head(frames))>> \o mapSortKey(Tail(frames))

\* frames whose transform_matrix is an array, with their sort keys, sorted
validTransformFrames(frames) ==
    LET isArray(frame) == frame.transform_matrix.array
    IN  sort(mapSortKey(SelectSeq(frames, isArray)))

\* A matrix is given by the shape of its rows: the number of columns of a
\* row that is an array, NotAnArray for any other row value.
NotAnArray == -1

hasCamera_RowsOnly(frame) ==
    frame.transform_matrix.array /\ Len(frame.transform_matrix.rows) >= 3

\* frameToCamera: null (no camera) unless the matrix is an array of at least
\* 3 rows whose first three rows are arrays of at least 4 columns
hasCamera(frame) ==
    LET m == frame.transform_matrix
    IN  /\ m.array /\ Len(m.rows) >= 3
        /\ \A i \in 1..3 : m.rows[i] # NotAnArray /\ m.rows[i] >= 4
frameToCamera(frame, f, worldRotation) ==
    LET m == frame.transform_matrix
    IN  IF worldRotation.some /\ worldRotation.val.flip
        THEN Pose(-m.position, AngleHalfTurn - m.forward, f)
        ELSE Pose(m.position, m.forward, f)

\* A field of transforms.json that is no number (absent, a string, null).
NotNumber == [some |-> FALSE, val |-> 0]
NoIntrinsics == [w |-> NotNumber, fl_x |-> NotNumber, camera_angle_x |-> NotNumber]

\* A field of view is counted in units of FovUnitDegrees degrees and
\* camera_angle_x in units of pi/18 radians, which are AngleUnitDegrees
\* degrees each.
FovUnitDegrees == 30
AngleUnitDegrees == 10

\* 1000 * tan(k * 15 degrees) for k = 1..5
TanHalfFov == <<268, 577, 1000, 1732, 3732>>

\* 2 * Math.atan(w / (2 * flX)) * 180 / Math.PI, rounded down to a whole unit
focalFov(w, flX) ==
    Cardinality({k \in 1..Len(TanHalfFov) : 1000 * w >= 2 * flX * TanHalfFov[k]})

\* cameraAngleX * 180 / Math.PI, rounded down to a whole unit
angleFov(cameraAngleX) == (cameraAngleX * AngleUnitDegrees) \div FovUnitDegrees

extractTransformsFov_AngleFirst(t, fallbackFov) ==
    IF t.camera_angle_x.some /\ t.camera_angle_x.val > 0
    THEN angleFov(t.camera_angle_x.val)
    ELSE IF t.w.some /\ t.fl_x.some /\ t.w.val > 0 /\ t.fl_x.val > 0
    THEN focalFov(t.w.val, t.fl_x.val)
    ELSE fallbackFov

extractTransformsFov(t, fallbackFov) ==
    IF t.w.some /\ t.fl_x.some /\ t.w.val > 0 /\ t.fl_x.val > 0
    THEN focalFov(t.w.val, t.fl_x.val)
    ELSE IF t.camera_angle_x.some /\ t.camera_angle_x.val > 0
    THEN angleFov(t.camera_angle_x.val)
    ELSE fallbackFov

transformsFov == extractTransformsFov(transforms, Camera0.fov)

\* A scene_xyz_deg_x_plus_90 value: absent, or a record whose x, y and z
\* are numbers (in half turns) or no numbers.
NoXform == [some |-> FALSE, val |-> <<>>]
Degrees(x, y, z) == Some([x |-> x, y |-> y, z |-> z])
isDegrees(d) == d.some /\ d.val.x.some /\ d.val.y.some /\ d.val.z.some

\* geoXform: direct is playcanvas_candidates.scene_xyz_deg_x_plus_90,
\* candidates lists candidate.scene_xyz_deg_x_plus_90 for the values of
\* playcanvas_candidates in the order Object.values yields them, legacy is
\* playcanvas_scene_xyz_deg_x_plus_90.
NoGeoXform == [direct |-> NoXform, candidates |-> <<>>, legacy |-> NoXform]

getSceneXformDegrees_LegacyFirst(g) ==
    IF isDegrees(g.legacy) THEN g.legacy
    ELSE IF isDegrees(g.direct) THEN g.direct
    ELSE LET wellFormed == {i \in 1..Len(g.candidates) : isDegrees(g.candidates[i])}
         IN  IF wellFormed # {}
             THEN g.candidates[CHOOSE i \in wellFormed : \A j \in wellFormed : i <= j]
             ELSE NoXform

getSceneXformDegrees(g) ==
    IF isDegrees(g.direct) THEN g.direct
    ELSE LET wellFormed == {i \in 1..Len(g.candidates) : isDegrees(g.candidates[i])}
         IN  IF wellFormed # {}
             THEN g.candidates[CHOOSE i \in wellFormed : \A j \in wellFormed : i <= j]
             ELSE IF isDegrees(g.legacy) THEN g.legacy
             ELSE NoXform

\* new Mat4().setFromEulerAngles(x, y, z), or null: in the one-dimensional
\* scene a half turn about y or z reverses the axis, a turn about x does not.
sceneRotation ==
    LET sceneRotationDegrees == getSceneXformDegrees(geoXform)
    IN  IF sceneRotationDegrees.some
        THEN Some([flip |-> (sceneRotationDegrees.val.y.val
                             + sceneRotationDegrees.val.z.val) % 2 = 1])
        ELSE [some |-> FALSE, val |-> [flip |-> FALSE]]

RECURSIVE prepareAll(_)
prepareAll(frames) ==
    IF frames = <<>> THEN <<>>
    ELSE (IF hasCamera(Head(frames))
          THEN <<[frame |-> Head(frames),
                  camera |-> frameToCamera(Head(frames), transformsFov, sceneRotation)]>>
          ELSE <<>>) \o prepareAll(Tail(frames))

\* the prepared dataset built by the constructor
prepare(frames) == prepareAll(validTransformFrames(frames))

\* A frame of transforms.json.
TransformFrame(path, id, rows, position, forward) ==
    [file_path |-> path, colmap_im_id |-> id,
     transform_matrix |-> [array |-> TRUE, rows |-> [i \in 1..rows |-> 4],
                           position |-> position, forward |-> forward]]

AllFrames ==
    <<TransformFrame(Some(<<"f", "r", "a", "m", "e", "_", "2">>), NoId, 3, 0, 0),
      TransformFrame(Some(<<"f", "r", "a", "m", "e", "_", "1">>), Some(7), 3, 2, AngleHalfTurn),
      TransformFrame(NoPath, Some(3), 3, 1, 0),
      TransformFrame(Some(<<"F", "r", "a", "m", "e", "_", "0", "3", ".", "p">>), NoId, 3, 2, 0)>>

\* a dataset whose matrices have only 2 rows
MalformedFrames == <<TransformFrame(NoPath, NoId, 2, 0, 0), TransformFrame(Some(<<"a">>), NoId, 2, 1, 0)>>

FovQuarterTurn == 3

\* ------------------------------------------------------ the user interface
\* initUI: the picture-in-picture viewer, the timeline scrubber and the
\* fading controls.  Its listeners are registered when the page starts,
\* before the camera manager exists, and so run before the camera manager's
\* listeners of the same event.  s is the state record of the running
\* handler, s.ui the closure variables of initUI.
UiTimeoutSeconds == 4
FadeSeconds == 5
NoTimeout == -1

InitUi ==
    [selectedFramePath |-> NoPath, fullscreenOpen |-> FALSE, pipHidden |-> TRUE,
     paused |-> FALSE, captured |-> FALSE,
     uiTimeout |-> NoTimeout, annotationVisible |-> FALSE, controlsHidden |-> FALSE,
     timers |-> {},     \* the pending timeouts, each by the seconds it has left
     idle |-> 0]        \* seconds since the last input event, up to FadeSeconds

isAnimationRunning(s) == s.cameraMode = "anim" /\ ~s.animationPaused

closeFullscreenFrame(s) == [s EXCEPT !.ui.fullscreenOpen = FALSE]

updatePipVisibility_KeepsOpen(s) ==
    LET shouldShow == s.ui.selectedFramePath.some /\ ~isAnimationRunning(s)
    IN  [s EXCEPT !.ui.pipHidden = ~shouldShow]

\* the listener of 'cameraMode:changed' and 'animationPaused:changed'
updatePipVisibility(s) ==
    LET shouldShow == s.ui.selectedFramePath.some /\ ~isAnimationRunning(s)
        s1 == [s EXCEPT !.ui.pipHidden = ~shouldShow]
    IN  IF shouldShow THEN s1 ELSE closeFullscreenFrame(s1)

openFullscreenFrame(s) ==
    IF ~s.ui.selectedFramePath.some THEN s ELSE [s EXCEPT !.ui.fullscreenOpen = TRUE]

toggleFullscreenFrame(s) ==
    IF s.ui.fullscreenOpen THEN closeFullscreenFrame(s) ELSE openFullscreenFrame(s)

\* the listener of 'transformFrame:selected'
onTransformFrameSelected(s, filePath) ==
    IF ~filePath.some \/ filePath.val = <<>> THEN s
    ELSE updatePipVisibility([s EXCEPT !.ui.selectedFramePath = filePath])

\* fires 'transformFrame:selected' for the selected index
emitSelectedTransformFrame(s) ==
    IF s.transformFrameIndex < 0 \/ s.transformFrameIndex >= Len(preparedTransformFrames)
    THEN s
    ELSE LET selected == preparedTransformFrames[s.transformFrameIndex + 1].frame
             s1 == Note(s, [Call("emit", "", NoPose, s.transformFrameIndex) EXCEPT
                              !.count = Len(preparedTransformFrames),
                              !.filePath = selected.file_path,
                              !.colmapImId = selected.colmap_im_id])
         IN  onTransformFrameSelected(s1, selected.file_path)

\* lengths of the scoring formula are counted in thousandths of a unit, so
\* that the lower limit 1e-3 of sceneScale is 1
Milli == 1000

score_IgnoresDirection(cam, i) ==
    LET candidate == preparedTransformFrames[i].camera
        sceneScale == Max(1, bbox.half * 2 * Milli)
        dist == Abs(cam.pos - candidate.pos) * Milli
        fovDiff == Min(FovQuarterTurn, Abs(cam.fov - candidate.fov))
    IN  4 * dist * AngleHalfTurn * FovQuarterTurn + fovDiff * sceneScale * AngleHalfTurn

sceneScale_Fixed(box) == 2 * Milli

\* Math.max(1e-3, bbox.halfExtents.length() * 2), in thousandths
sceneScale(box) == Max(1, box.half * 2 * Milli)

\* The composite score of a candidate pose in a scene of bounding box box,
\* times 10 * sceneScale * AngleHalfTurn * FovQuarterTurn (a common positive
\* factor of every candidate's score in that scene).
scoreIn(box, cam, candidate) ==
    LET dist == Abs(cam.pos - candidate.pos) * Milli
        angle == Abs(cam.ang - candidate.ang)
        fovDiff == Min(FovQuarterTurn, Abs(cam.fov - candidate.fov))
        behind == 2 * angle > AngleHalfTurn
    IN  4 * dist * AngleHalfTurn * FovQuarterTurn
        + 5 * angle * sceneScale(box) * FovQuarterTurn
        + fovDiff * sceneScale(box) * AngleHalfTurn
        + (IF behind THEN 5 * sceneScale(box) * AngleHalfTurn * FovQuarterTurn ELSE 0)

\* the score of candidate i of the prepared dataset
score(cam, i) == scoreIn(bbox, cam, preparedTransformFrames[i].camera)

bestIndexFor_LastMinimum(cam) ==
    IF Len(preparedTransformFrames) = 0 THEN -1
    ELSE (CHOOSE i \in 1..Len(preparedTransformFrames) :
            \A j \in 1..Len(preparedTransformFrames) :
                score(cam, i) < score(cam, j) \/ (score(cam, i) = score(cam, j) /\ i >= j)) - 1

\* the first index of minimum score (the scan keeps the first strict minimum)
bestIndexFor(cam) ==
    IF Len(preparedTransformFrames) = 0 THEN -1
    ELSE (CHOOSE i \in 1..Len(preparedTransformFrames) :
            \A j \in 1..Len(preparedTransformFrames) :
                score(cam, i) < score(cam, j) \/ (score(cam, i) = score(cam, j) /\ i <= j)) - 1

\* pickNearestFrameForCurrentView(emitSelection); auto marks the call made
\* by update after the camera settled.  The call is recorded with the index
\* it returns.
pickNearestFrameForCurrentView(s, emitSelection, auto) ==
    LET Select(bestIndex) ==
            LET s0 == Note(s, Call(IF auto THEN "rematch" ELSE "match", "", s.camera, bestIndex))
            IN  IF Len(preparedTransformFrames) = 0 THEN s0
                ELSE LET s1 == [s0 EXCEPT !.transformFrameIndex = bestIndex]
                     IN  IF emitSelection THEN Value(s1, emitSelectedTransformFrame) ELSE s1
    IN  Value(bestIndexFor(s.camera), Select)

\* state.cameraMode = value, through the observer of the application state:
\* a changed value is stored and 'cameraMode:changed' is fired with the new
\* and the previous value.
startTransition_KeepFrom(s) == [s EXCEPT !.transitionTimer = 0]

\* start a new camera transition from the current pose
startTransition(s) == [s EXCEPT !.from = s.camera, !.transitionTimer = 0]

cameraModeChanged_FromIsValue(s, value, prev) ==
    LET s1 == startTransition(s)
        s2 == [s1 EXCEPT !.target = s1.camera, !.fromMode = value]
    IN  IF ~hasController(prev) THEN Throw(s2)
        ELSE LET s3 == onExit(s2, prev, s2.camera)
             IN  IF ~hasController(value) THEN Throw(s3)
                 ELSE onEnter(s3, value, s3.camera)

\* the 'cameraMode:changed' handler
cameraModeChanged(s, value, prev) ==
    LET s1 == startTransition(s)
        s2 == [s1 EXCEPT !.target = s1.camera, !.fromMode = prev]
    IN  IF ~hasController(prev) THEN Throw(s2)
        ELSE LET s3 == onExit(s2, prev, s2.camera)
             IN  IF ~hasController(value) THEN Throw(s3)
                 ELSE onEnter(s3, value, s3.camera)

setCameraMode(s, value) ==
    IF s.cameraMode = value THEN s
    ELSE cameraModeChanged(updatePipVisibility([s EXCEPT !.cameraMode = value]),
                           value, s.cameraMode)

\* state.animationPaused = value: a changed value is stored and
\* 'animationPaused:changed' is fired
setAnimationPaused(s, value) ==
    IF s.animationPaused = value THEN s
    ELSE updatePipVisibility([s EXCEPT !.animationPaused = value])

\* run f on s unless a call before it has thrown
Then(s, f(_)) == IF s.thrown THEN s ELSE f(s)

gotoTransformFrameIndex(s, index) ==
    IF index < 0 \/ index >= Len(preparedTransformFrames) THEN s
    ELSE LET s1 == [s EXCEPT !.transformFrameIndex = index]
             selected == preparedTransformFrames[index + 1].camera
             s2 == setCameraMode(s1, "orbit")
             Rest(x) == emitSelectedTransformFrame(goto(x, selected))
         IN  Then(s2, Rest)

stepTransformFrame_Clamp(s, step) ==
    LET count == Len(preparedTransformFrames)
    IN  IF count = 0 THEN s
        ELSE LET s1 == IF s.transformFrameIndex < 0
                       THEN pickNearestFrameForCurrentView(s, TRUE, FALSE)
                       ELSE s
                 s2 == [s1 EXCEPT !.transformFrameIndex = Max(0, Min(count - 1, @ + step))]
             IN  gotoTransformFrameIndex(s2, s2.transformFrameIndex)

stepTransformFrame_NoWrap(s, step) ==
    LET count == Len(preparedTransformFrames)
    IN  IF count = 0 THEN s
        ELSE LET s1 == IF s.transformFrameIndex < 0
                       THEN pickNearestFrameForCurrentView(s, TRUE, FALSE)
                       ELSE s
                 s2 == [s1 EXCEPT !.transformFrameIndex = @ + step]
             IN  gotoTransformFrameIndex(s2, s2.transformFrameIndex)

stepTransformFrame(s, step) ==
    LET count == Len(preparedTransformFrames)
    IN  IF count = 0 THEN s
        ELSE LET s1 == IF s.transformFrameIndex < 0
                       THEN pickNearestFrameForCurrentView(s, TRUE, FALSE)
                       ELSE s
                 s2 == [s1 EXCEPT !.transformFrameIndex = (@ + step + count) % count]
             IN  gotoTransformFrameIndex(s2, s2.transformFrameIndex)

\* ------------------------------------------------------------ the update
\* dt of 0 while the animation is paused
effectiveDt(s, deltaTime) ==
    IF s.cameraMode = "anim" /\ s.animationPaused THEN 0 ELSE deltaTime

advanceTimer_UsesDt(s, deltaTime) ==
    [s EXCEPT !.transitionTimer =
        Min(TimerOne, @ + effectiveDt(s, deltaTime) * transitionSpeed)]

advanceTimer_NoCap(s, deltaTime) ==
    [s EXCEPT !.transitionTimer = @ + deltaTime * transitionSpeed]

\* transitionTimer = Math.min(1, transitionTimer + deltaTime * transitionSpeed)
advanceTimer(s, deltaTime) ==
    [s EXCEPT !.transitionTimer = Min(TimerOne, @ + deltaTime * transitionSpeed)]

blend_NoSnap(s) ==
    IF s.transitionTimer < TimerOne
    THEN [s EXCEPT !.camera = lerp(s.from, s.target, easeOut(s.transitionTimer))]
    ELSE s

\* lerp away from the previous camera during a transition, else copy the target
blend(s) ==
    IF s.transitionTimer < TimerOne
    THEN [s EXCEPT !.camera = lerp(s.from, s.target, easeOut(s.transitionTimer))]
    ELSE [s EXCEPT !.camera = s.target]

\* update the animation timeline
publishAnimationTime(s) ==
    IF s.cameraMode = "anim" THEN [s EXCEPT !.animationTime = s.cursor] ELSE s

\* the pose changed by more than a threshold between a and b
moving(a, b) ==
    \/ Abs(b.pos - a.pos) > positionDeltaThreshold
    \/ Abs(b.ang - a.ang) > angleDeltaThreshold
    \/ Abs(b.fov - a.fov) > fovDeltaThreshold

settle_Late(s, deltaTime) ==
    IF moving(s.previous, s.camera)
    THEN [s EXCEPT !.wasMoving = TRUE, !.settledTime = 0]
    ELSE IF s.wasMoving
    THEN LET s1 == [s EXCEPT !.settledTime = @ + deltaTime]
         IN  IF s1.settledTime > settleDelaySeconds
             THEN pickNearestFrameForCurrentView(
                      [s1 EXCEPT !.wasMoving = FALSE, !.settledTime = 0], TRUE, TRUE)
             ELSE s1
    ELSE s

settle_KeepsWasMoving(s, deltaTime) ==
    IF moving(s.previous, s.camera)
    THEN [s EXCEPT !.wasMoving = TRUE, !.settledTime = 0]
    ELSE IF s.wasMoving
    THEN LET s1 == [s EXCEPT !.settledTime = @ + deltaTime]
         IN  IF s1.settledTime >= settleDelaySeconds
             THEN pickNearestFrameForCurrentView([s1 EXCEPT !.settledTime = 0], TRUE, TRUE)
             ELSE s1
    ELSE s

\* movement detection and the debounced automatic rematch
settle(s, deltaTime) ==
    IF moving(s.previous, s.camera)
    THEN [s EXCEPT !.wasMoving = TRUE, !.settledTime = 0]
    ELSE IF s.wasMoving
    THEN LET s1 == [s EXCEPT !.settledTime = @ + deltaTime]
         IN  IF s1.settledTime >= settleDelaySeconds
             THEN pickNearestFrameForCurrentView(
                      [s1 EXCEPT !.wasMoving = FALSE, !.settledTime = 0], TRUE, TRUE)
             ELSE s1
    ELSE s

\* CameraManager.update(deltaTime, frame)
update(s, deltaTime, move) ==
    LET dt == effectiveDt(s, deltaTime)
        Remember(s4) == [s4 EXCEPT !.previous = s4.camera]
        Detect(s3) == Value(settle(s3, deltaTime), Remember)
        Blend(s2) == Value(publishAnimationTime(blend(s2)), Detect)
        Control(s1) ==
            IF ~hasController(s1.cameraMode) THEN Throw(s1)
            ELSE Value(controllerUpdate(s1, s1.cameraMode, dt, move), Blend)
    IN  Value(advanceTimer(s, deltaTime), Control)

\* --------------------------------------------------------- event handlers
onFrame(s) ==
    LET Rest(x) == startTransition(goto(x, frameCamera))
    IN  Then(setCameraMode(s, "orbit"), Rest)

onReset_ClearsSelection(s) ==
    LET Rest(x) == startTransition(goto([x EXCEPT !.transformFrameIndex = -1], resetCamera))
    IN  Then(setCameraMode(s, "orbit"), Rest)

onReset(s) ==
    LET Rest(x) == startTransition(goto(x, resetCamera))
    IN  Then(setCameraMode(s, "orbit"), Rest)

onPlayPause_KeepsPause(s) ==
    IF hasAnimation
    THEN IF s.cameraMode = "anim"
         THEN setAnimationPaused(s, ~s.animationPaused)
         ELSE setCameraMode(s, "anim")
    ELSE s

onPlayPause(s) ==
    IF hasAnimation
    THEN IF s.cameraMode = "anim"
         THEN setAnimationPaused(s, ~s.animationPaused)
         ELSE LET Rest(x) == setAnimationPaused(x, FALSE)
              IN  Then(setCameraMode(s, "anim"), Rest)
    ELSE s

onCancel_ToOrbit(s) ==
    IF s.cameraMode = "anim" THEN setCameraMode(s, "orbit") ELSE s

onCancel(s) ==
    IF s.cameraMode = "anim" THEN setCameraMode(s, s.fromMode) ELSE s

onGotoNearestTransformFrame_FramesScene(s) ==
    LET s1 == pickNearestFrameForCurrentView(s, FALSE, FALSE)
        nearestIndex == IF Len(preparedTransformFrames) = 0 THEN -1
                        ELSE s1.transformFrameIndex
    IN  IF nearestIndex >= 0 THEN gotoTransformFrameIndex(s1, nearestIndex)
        ELSE startTransition(goto(s1, frameCamera))

onGotoNearestTransformFrame(s) ==
    LET s1 == pickNearestFrameForCurrentView(s, FALSE, FALSE)
        nearestIndex == IF Len(preparedTransformFrames) = 0 THEN -1
                        ELSE s1.transformFrameIndex
    IN  IF nearestIndex >= 0 THEN gotoTransformFrameIndex(s1, nearestIndex) ELSE s1

\* the fourth argument of the 'inputEvent' event, which the listener of the
\* camera manager does not take
Options == {[retainCameraMode |-> FALSE], [retainCameraMode |-> TRUE]}

onGotoCurrentTransformFrame(s, options) ==
    IF s.transformFrameIndex >= 0
    THEN gotoTransformFrameIndex(s, s.transformFrameIndex) ELSE s

onScrubAnim(s, time) ==
    LET Rest(x) == IF hasController("anim") THEN [x EXCEPT !.cursor = time] ELSE Throw(x)
    IN  Then(setCameraMode(s, "anim"), Rest)

onPick(s, position) ==
    LET Rest(x) ==
            LET tmpCamera == look(x.camera.pos, position, x.camera.fov)
            IN  startTransition(goto(x, tmpCamera))
    IN  Then(setCameraMode(s, "orbit"), Rest)

onAnnotationActivate(s, annotation) ==
    LET Rest(x) ==
            LET tmpCamera == look(annotation.position, annotation.target, annotation.fov)
                x1 == goto(x, tmpCamera)
            IN  startTransition([x1 EXCEPT !.target.fov = tmpCamera.fov])
    IN  Then(setCameraMode(s, "orbit"), Rest)

\* ---------------------------------------------------------------- inputs
\* Spec: frames of half a second (or of no duration) with the steering
\* input at rest; SpecFine: frames of up to MaxDelta ticks, with steering.
DeltaTimes == {0, TimerOne \div 2}
Moves == {0}
FineDeltaTimes == 0..MaxDelta
SteerMoves == {0, 1}
PickPositions == {0}
Annotations == {[position |-> 2, target |-> 0, fov |-> Camera0.fov]}
ScrubTimes == {0}
BBoxes == {[center |-> 0, half |-> 0], [center |-> 0, half |-> 1]}
Datasets == {MalformedFrames, SubSeq(AllFrames, 1, MaxFrames)}

\* ------------------------------------------- input events, with the UI
\* showUI: clear the pending timeout, show the controls and start the
\* timeout that hides them; uiTimeout follows the seconds its timeout has left
showUI(s) ==
    [s EXCEPT !.ui.timers = (@ \ {s.ui.uiTimeout}) \cup {UiTimeoutSeconds},
              !.ui.uiTimeout = UiTimeoutSeconds,
              !.ui.controlsHidden = FALSE]

\* the callback of the timeout
onUiTimeout(s) ==
    [s EXCEPT !.ui.uiTimeout = NoTimeout,
              !.ui.controlsHidden = IF s.ui.annotationVisible THEN @ ELSE TRUE]

\* one second passes: every pending timeout has a second less left, and a
\* timeout with none left runs its callback
onSecond(s) ==
    LET s1 == [s EXCEPT !.ui.timers = {r - 1 : r \in @ \ {1}},
                        !.ui.uiTimeout = IF @ = NoTimeout THEN @ ELSE @ - 1,
                        !.ui.idle = Min(FadeSeconds, @ + 1)]
    IN  IF 1 \in s.ui.timers THEN onUiTimeout(s1) ELSE s1

\* the listeners of 'inputEvent' in initUI
uiInputEvent(s, name) ==
    showUI([(IF name = "cancel" THEN closeFullscreenFrame(s) ELSE s) EXCEPT !.ui.idle = 0])

\* the listeners of 'annotation.activate' and 'annotation.deactivate' in initUI
uiAnnotation(s, visible) == showUI([s EXCEPT !.ui.annotationVisible = visible])

InputNames ==
    {"frame", "reset", "playPause", "cancel", "interrupt", "prevTransformFrame",
     "nextTransformFrame", "gotoNearestTransformFrame", "gotoCurrentTransformFrame"}

\* events.fire('inputEvent', name, event, options): the listeners of initUI,
\* then the listener of the camera manager
inputEvent(s, name, options) ==
    LET Handle(x) ==
            CASE name = "frame" -> onFrame(x)
              [] name = "reset" -> onReset(x)
              [] name = "playPause" -> onPlayPause(x)
              [] name \in {"cancel", "interrupt"} -> onCancel(x)
              [] name = "prevTransformFrame" -> stepTransformFrame(x, -1)
              [] name = "nextTransformFrame" -> stepTransformFrame(x, 1)
              [] name = "gotoNearestTransformFrame" -> onGotoNearestTransformFrame(x)
              [] OTHER -> onGotoCurrentTransformFrame(x, options)
    IN  Value(uiInputEvent(s, name), Handle)

\* handleScrub: scrub the animation to the pointer's time, show the controls
handleScrub(s, time) == Then(onScrubAnim(s, time), showUI)

\* timelineContainer 'pointerdown'
onPointerDown(s, time) ==
    LET Capture(x) ==
            [setAnimationPaused([x EXCEPT !.ui.paused = x.animationPaused], TRUE)
                EXCEPT !.ui.captured = TRUE]
    IN  IF s.ui.captured THEN s
        ELSE Then(handleScrub(Note(s, Call("pointerdown", "", NoPose, -1)), time), Capture)

\* timelineContainer 'pointermove'
onPointerMove(s, time) == IF s.ui.captured THEN handleScrub(s, time) ELSE s

onPointerUp_StaysPaused(s) ==
    IF s.ui.captured
    THEN [Note(s, Call("pointerup", "", NoPose, -1)) EXCEPT !.ui.captured = FALSE]
    ELSE s

\* timelineContainer 'pointerup'
onPointerUp(s) ==
    IF s.ui.captured
    THEN [setAnimationPaused(Note(s, Call("pointerup", "", NoPose, -1)), s.ui.paused)
             EXCEPT !.ui.captured = FALSE]
    ELSE s

\* the click on the thumbnail and the 'z' key
onPipToggle(s) ==
    Then(inputEvent(s, "gotoCurrentTransformFrame", [retainCameraMode |-> TRUE]),
         toggleFullscreenFrame)

\* ---------------------------------------------------------- the XR session
\* XrControllers (the controller models) and initXr (drag and teleport).
\* An input source is added once and removed once; x is the value of xr.
Sources == {1, 2}

NoDrag == [some |-> FALSE, mode |-> "", active |-> FALSE, moved |-> FALSE]
Drag(mode, active) == [some |-> TRUE, mode |-> mode, active |-> active, moved |-> FALSE]

InitXr ==
    [status |-> [i \in Sources |-> "absent"],     \* absent, added, removed
     setup |-> [i \in Sources |-> "none"],        \* the async 'add' handler: none, pending, done
     controllers |-> {},                          \* keys of XrControllers.controllers
     attached |-> {},                             \* sources whose entity is a child of app.root
     inputHandlers |-> {},
     dragState |-> [i \in Sources |-> NoDrag],
     movedInputs |-> {},
     teleported |-> {}]                           \* sources whose last select end teleported

\* xr.input 'add': XrControllers starts loading the profiles unless the
\* source is a hand or has no profiles; initXr registers the handlers.
onInputAdd(x, i, loads) ==
    [x EXCEPT !.status[i] = "added",
              !.setup[i] = IF loads THEN "pending" ELSE "none",
              !.inputHandlers = @ \cup {i}]

\* the rest of the async 'add' handler, once Promise.all has settled: with a
\* renderable container the entity is attached and the entry is set
onProfilesLoaded(x, i, renderable) ==
    IF renderable
    THEN [x EXCEPT !.setup[i] = "done", !.attached = @ \cup {i},
                   !.controllers = @ \cup {i}]
    ELSE [x EXCEPT !.setup[i] = "done"]

\* xr.input 'remove': XrControllers destroys the entity of the entry it
\* finds; initXr drops the handlers and the drag record
onInputRemove(x, i) ==
    [x EXCEPT !.status[i] = "removed",
              !.attached = IF i \in x.controllers THEN @ \ {i} ELSE @,
              !.controllers = @ \ {i},
              !.inputHandlers = @ \ {i},
              !.dragState[i] = NoDrag]

\* handleSelectStart, handleSqueezeStart; active: the drag origin is known
beginDrag(x, i, mode, active) == [x EXCEPT !.dragState[i] = Drag(mode, active)]

\* handleSelectEnd; short: held for at most clickMaxDurationMs
handleSelectEnd(x, i, short) ==
    LET state == x.dragState[i]
        suppressTeleport == i \in x.movedInputs
        teleports == state.mode = "select" /\ ~state.moved /\ ~suppressTeleport /\ short
    IN  IF ~state.some THEN x
        ELSE [x EXCEPT !.teleported = IF teleports THEN @ \cup {i} ELSE @ \ {i},
                       !.dragState[i] = NoDrag,
                       !.movedInputs = @ \ {i}]

handleSqueezeEnd(x, i) ==
    IF ~x.dragState[i].some THEN x ELSE [x EXCEPT !.dragState[i] = NoDrag]

\* the app 'update' handler: far is the set of sources whose origin is at
\* least dragMoveThreshold away from where their drag started, known the
\* set of sources whose origin is available
onXrUpdate(x, known, far) ==
    LET step(i) ==
            LET state == x.dragState[i]
            IN  IF ~state.some \/ i \notin known THEN state
                ELSE IF ~state.active THEN [state EXCEPT !.active = TRUE]
                ELSE IF ~state.moved /\ i \in far THEN [state EXCEPT !.moved = TRUE]
                ELSE state
        marked == {i \in Sources : ~x.dragState[i].moved /\ step(i).moved}
    IN  [x EXCEPT !.dragState = [i \in Sources |-> step(i)],
                  !.movedInputs = @ \cup marked]

\* the XR session ends
onXrEnd(x) ==
    [x EXCEPT !.inputHandlers = {}, !.dragState = [i \in Sources |-> NoDrag],
              !.movedInputs = {}]

\* ------------------------------------------------------- the state machine
cameraVars == <<authoredTrack, bbox, transformFrames, transforms, geoXform,
                preparedTransformFrames, cameraMode,
                animationPaused, animationTime, camera, target, from, fromMode,
                transitionTimer, previous, wasMoving, settledTime,
                transformFrameIndex, orbit, fly, cursor, log, error>>

CommitCamera(state) ==
    \E s \in {state} :
    /\ cameraMode' = s.cameraMode
    /\ animationPaused' = s.animationPaused
    /\ animationTime' = s.animationTime
    /\ camera' = s.camera
    /\ target' = s.target
    /\ from' = s.from
    /\ fromMode' = s.fromMode
    /\ transitionTimer' = s.transitionTimer
    /\ previous' = s.previous
    /\ wasMoving' = s.wasMoving
    /\ settledTime' = s.settledTime
    /\ transformFrameIndex' = s.transformFrameIndex
    /\ orbit' = s.orbit
    /\ fly' = s.fly
    /\ cursor' = s.cursor
    /\ log' = s.log
    /\ error' = (error \/ s.thrown)
    /\ UNCHANGED <<authoredTrack, bbox, transformFrames, transforms, geoXform,
                   preparedTransformFrames>>

\* a handler of the camera manager on its own
Commit(state) == CommitCamera(state) /\ UNCHANGED <<ui, xr>>

\* a handler with the listeners of the user interface
CommitUi(state) == \E s \in {state} : CommitCamera(s) /\ ui' = s.ui /\ UNCHANGED xr

initialMode_NoAnim == IF isObjectExperience THEN "orbit" ELSE "fly"

\* state.cameraMode as the constructor sets it
initialMode ==
    IF hasAnimation THEN "anim" ELSE IF isObjectExperience THEN "orbit" ELSE "fly"

\* the constructor, after the dataset is prepared
InitCamera ==
    /\ animationTime = 0
    /\ cameraMode = initialMode
    /\ camera = resetCamera
    /\ target = camera
    /\ from = camera
    /\ fromMode = (IF isObjectExperience THEN "orbit" ELSE "fly")
    /\ orbit = (IF cameraMode = "orbit" THEN PosAng(camera) ELSE PosAng(Pose(0, 0, 0)))
    /\ fly = (IF cameraMode = "fly" THEN PosAng(camera) ELSE PosAng(Pose(0, 0, 0)))
    /\ cursor = 0
    /\ transitionTimer = TimerOne
    /\ previous = camera
    /\ wasMoving = FALSE
    /\ settledTime = 0
    /\ transformFrameIndex = -1
    /\ log = <<Call("constructor", "", NoPose, -1), Call("onEnter", cameraMode, camera, -1)>>
    /\ error = FALSE

\* the constructor
Init ==
    /\ authoredTrack \in BOOLEAN
    /\ bbox \in BBoxes
    /\ transformFrames \in Datasets
    /\ transforms = NoIntrinsics
    /\ geoXform = NoGeoXform
    /\ ui = InitUi
    /\ xr = InitXr
    /\ preparedTransformFrames = prepare(transformFrames)
    /\ animationPaused \in BOOLEAN
    /\ InitCamera

UpdateWith(deltaTime, move) == Commit(update(State, deltaTime, move))
Update == \E deltaTime \in DeltaTimes, move \in Moves : UpdateWith(deltaTime, move)
Frame == Commit(onFrame(State))
Reset == Commit(onReset(State))
PlayPause == Commit(onPlayPause(State))
\* 'cancel' and 'interrupt' share one handler
Cancel == Commit(onCancel(State))
PrevTransformFrame == Commit(stepTransformFrame(State, -1))
NextTransformFrame == Commit(stepTransformFrame(State, 1))
GotoNearestTransformFrame == Commit(onGotoNearestTransformFrame(State))
GotoCurrentTransformFrame ==
    \E options \in Options : Commit(onGotoCurrentTransformFrame(State, options))
CameraModeRequest == \E value \in Modes : Commit(setCameraMode(State, value))
ScrubAnim == \E time \in ScrubTimes : Commit(onScrubAnim(State, time))
Pick == \E position \in PickPositions : Commit(onPick(State, position))
AnnotationActivate == \E annotation \in Annotations : Commit(onAnnotationActivate(State, annotation))

Next ==
    \/ Update
    \/ Frame
    \/ Reset
    \/ PlayPause
    \/ Cancel
    \/ PrevTransformFrame
    \/ NextTransformFrame
    \/ GotoNearestTransformFrame
    \/ GotoCurrentTransformFrame
    \/ CameraModeRequest
    \/ ScrubAnim
    \/ Pick
    \/ AnnotationActivate

Spec == Init /\ [][Next]_vars

\* Fine-grained time: an authored track, the start pose inside the content.
InitFine ==
    /\ Init
    /\ authoredTrack
    /\ ~isObjectExperience
    /\ preparedTransformFrames # <<>>
    /\ ~animationPaused

Steer == \E deltaTime \in FineDeltaTimes, move \in SteerMoves : UpdateWith(deltaTime, move)

NextFine ==
    \/ Steer
    \/ Reset
    \/ CameraModeRequest

SpecFine == InitFine /\ [][NextFine]_vars

\* The frame loop keeps calling update with a positive deltaTime, and no
\* transition is triggered while one is in flight.
Tick == \E deltaTime \in FineDeltaTimes \ {0}, move \in SteerMoves : UpdateWith(deltaTime, move)

NextQuiet ==
    \/ Steer
    \/ (transitionTimer = TimerOne /\ Reset)
    \/ (transitionTimer = TimerOne /\ PlayPause)
    \/ (transitionTimer = TimerOne /\ CameraModeRequest)

SpecQuiet == InitFine /\ [][NextQuiet]_vars /\ WF_vars(Tick)

\* Dataset preparation on its own: the constructor has loaded
\* transforms.frames and has not yet filtered, sorted and prepared them.
SortFrames ==
    {TransformFrame(Some(<<"f", "r", "a", "m", "e", "_", "2">>), NoId, 3, 0, 0),
     TransformFrame(Some(<<"f", "r", "a", "m", "e", "_", "1", "0">>), NoId, 3, 1, 0),
     TransformFrame(Some(<<"f", "r", "a", "m", "e", "_", "2", ".", "p">>), Some(2), 3, 2, 0),
     TransformFrame(Some(<<"b">>), NoId, 3, 0, AngleHalfTurn),
     TransformFrame(Some(<<"a">>), Some(1), 3, 1, AngleHalfTurn),
     TransformFrame(NoPath, Some(5), 3, 2, AngleHalfTurn),
     TransformFrame(Some(<<"f", "r", "a", "m", "e", "_", "1">>), NoId, 2, 0, 0)}

RECURSIVE SeqsUpTo(_, _)
SeqsUpTo(set, n) ==
    IF n = 0 THEN {<<>>}
    ELSE LET shorter == SeqsUpTo(set, n - 1)
         IN  shorter \cup {Append(q, x) : q \in shorter, x \in set}

InitPrepare ==
    /\ authoredTrack = TRUE
    /\ bbox = [center |-> 0, half |-> 1]
    /\ transformFrames \in SeqsUpTo(SortFrames, MaxInputFrames)
    /\ transforms = NoIntrinsics
    /\ geoXform = NoGeoXform
    /\ ui = InitUi
    /\ xr = InitXr
    /\ preparedTransformFrames = <<>>
    /\ animationPaused = FALSE
    /\ InitCamera

Prepare ==
    /\ preparedTransformFrames' = prepare(transformFrames)
    /\ UNCHANGED <<authoredTrack, bbox, transformFrames, transforms, geoXform,
                   cameraMode, animationPaused,
                   animationTime, camera, target, from, fromMode, transitionTimer,
                   previous, wasMoving, settledTime, transformFrameIndex, orbit, fly,
                   cursor, log, error, ui, xr>>

SpecPrepare == InitPrepare /\ [][Prepare]_vars

\* The matcher on its own: the camera at rest in 'orbit' at any pose, over
\* every dataset of up to MaxInputFrames frames drawn from MatchFrames.
MatchFrames ==
    {TransformFrame(Some(<<"f", "r", "a", "m", "e", "_", "1">>), NoId, 3, 0, 0),
     TransformFrame(Some(<<"f", "r", "a", "m", "e", "_", "2">>), NoId, 3, 2, AngleHalfTurn),
     TransformFrame(Some(<<"f", "r", "a", "m", "e", "_", "3">>), NoId, 3, 2, 0),
     TransformFrame(Some(<<"f", "r", "a", "m", "e", "_", "0">>), NoId, 3, 0, AngleHalfTurn)}

MatchCameras ==
    {Pose(p, a, f) : p \in 0..MaxPos, a \in {0, AngleHalfTurn},
                     f \in {Camera0.fov, Camera0.fov + FovQuarterTurn + 1}}

InitMatch ==
    /\ authoredTrack = TRUE
    /\ bbox \in BBoxes
    /\ transformFrames \in SeqsUpTo(MatchFrames, MaxInputFrames)
    /\ transforms = NoIntrinsics
    /\ geoXform = NoGeoXform
    /\ ui = InitUi
    /\ xr = InitXr
    /\ preparedTransformFrames = prepare(transformFrames)
    /\ animationPaused = FALSE
    /\ animationTime = 0
    /\ cameraMode = "orbit"
    /\ camera \in MatchCameras
    /\ target = camera
    /\ from = camera
    /\ fromMode = "anim"
    /\ orbit = PosAng(camera)
    /\ fly = PosAng(Pose(0, 0, 0))
    /\ cursor = 0
    /\ transitionTimer = TimerOne
    /\ previous = camera
    /\ wasMoving = FALSE
    /\ settledTime = 0
    /\ transformFrameIndex = -1
    /\ log = <<>>
    /\ error = FALSE

NextMatch == GotoNearestTransformFrame \/ NextTransformFrame

SpecMatch == InitMatch /\ [][NextMatch]_vars

\* Matrix shapes: datasets of up to MaxInputFrames frames drawn from
\* ShapeFrames, some with a matrix that frameToCamera rejects, and the
\* navigation requests over the prepared dataset.
ShapedFrame(path, isArray, rows, position) ==
    [TransformFrame(Some(path), NoId, 0, position, 0) EXCEPT
        !.transform_matrix.array = isArray, !.transform_matrix.rows = rows]

ShapeFrames ==
    {ShapedFrame(<<"a">>, TRUE, <<4, 4, 4>>, 0),
     ShapedFrame(<<"b">>, TRUE, <<4, 5, 4, NotAnArray>>, 2),
     ShapedFrame(<<"f", "r", "a", "m", "e", "_", "1">>, TRUE, <<4, 4>>, 1),
     ShapedFrame(<<"f", "r", "a", "m", "e", "_", "2">>, TRUE, <<4, 3, 4>>, 1),
     ShapedFrame(<<"f", "r", "a", "m", "e", "_", "3">>, TRUE, <<4, 4, NotAnArray, 4>>, 1),
     ShapedFrame(<<"f", "r", "a", "m", "e", "_", "4">>, FALSE, <<>>, 1),
     ShapedFrame(<<"f", "r", "a", "m", "e", "_", "5">>, TRUE, <<>>, 1)}

InitShape ==
    /\ authoredTrack = TRUE
    /\ bbox = [center |-> 0, half |-> 1]
    /\ transformFrames \in SeqsUpTo(ShapeFrames, MaxInputFrames)
    /\ transforms = NoIntrinsics
    /\ geoXform = NoGeoXform
    /\ ui = InitUi
    /\ xr = InitXr
    /\ preparedTransformFrames = prepare(transformFrames)
    /\ animationPaused = FALSE
    /\ InitCamera

NextShape == PrevTransformFrame \/ NextTransformFrame \/ GotoNearestTransformFrame

SpecShape == InitShape /\ [][NextShape]_vars

\* Sort keys: datasets of up to MaxInputFrames frames drawn from KeyFrames,
\* whose file names differ in prefix, digits and extension.
KeyFrames ==
    {TransformFrame(Some(<<"f", "r", "a", "m", "e", "_", "2">>), NoId, 3, 0, 0),
     TransformFrame(Some(<<"b", "/", "F", "r", "a", "m", "e", "_", "0", "3", ".", "p">>), NoId, 3, 1, 0),
     TransformFrame(Some(<<"a", "_", "1", "2", ".", "p">>), NoId, 3, 2, 0),
     TransformFrame(Some(<<"f", "r", "a", "m", "e", "_", "1", ".", "p", ".", "p">>), NoId, 3, 0, 0),
     TransformFrame(Some(<<"f", "r", "a", "m", "e", "7">>), NoId, 3, 1, 0),
     TransformFrame(NoPath, Some(4), 3, 2, 0)}

InitKey ==
    /\ authoredTrack = TRUE
    /\ bbox = [center |-> 0, half |-> 1]
    /\ transformFrames \in SeqsUpTo(KeyFrames, MaxInputFrames)
    /\ transforms = NoIntrinsics
    /\ geoXform = NoGeoXform
    /\ ui = InitUi
    /\ xr = InitXr
    /\ preparedTransformFrames = <<>>
    /\ animationPaused = FALSE
    /\ InitCamera

SpecKey == InitKey /\ [][Prepare]_vars

\* Field of view: the intrinsics of transforms.json are no number, zero,
\* negative or positive, over a dataset of up to MaxInputFrames frames.
Intrinsics ==
    [w : {NotNumber, Some(0), Some(-2), Some(2)},
     fl_x : {NotNumber, Some(0), Some(1), Some(2)},
     camera_angle_x : {NotNumber, Some(0), Some(-9), Some(9), Some(12)}]

InitFov ==
    /\ authoredTrack = TRUE
    /\ bbox = [center |-> 0, half |-> 1]
    /\ transformFrames \in {SubSeq(AllFrames, 1, n) : n \in 0..MaxInputFrames}
    /\ transforms \in Intrinsics
    /\ geoXform = NoGeoXform
    /\ ui = InitUi
    /\ xr = InitXr
    /\ preparedTransformFrames = <<>>
    /\ animationPaused = FALSE
    /\ InitCamera

SpecFov == InitFov /\ [][Prepare]_vars

\* Scene re-orientation: each of the direct field, up to MaxCandidates
\* entries of the candidate map and the legacy field is absent, a record
\* with a component that is no number, a half turn about y, or a half turn
\* about x.
XformValues ==
    {NoXform,
     Degrees(Some(0), NotNumber, Some(0)),
     Degrees(Some(0), Some(1), Some(0)),
     Degrees(Some(1), Some(0), Some(0))}

InitXform ==
    /\ authoredTrack = TRUE
    /\ bbox = [center |-> 0, half |-> 1]
    /\ transformFrames = SubSeq(AllFrames, 1, 2)
    /\ transforms = NoIntrinsics
    /\ geoXform \in [direct : XformValues,
                     candidates : SeqsUpTo(XformValues, MaxCandidates),
                     legacy : XformValues]
    /\ ui = InitUi
    /\ xr = InitXr
    /\ preparedTransformFrames = <<>>
    /\ animationPaused = FALSE
    /\ InitCamera

SpecXform == InitXform /\ [][Prepare]_vars

\* The picture-in-picture viewer attached to the camera manager, over a
\* dataset whose frames have a file_path and one that has a frame without.
PipDatasets == {SubSeq(AllFrames, 1, MaxFrames), SubSeq(AllFrames, 2, 3)}

InitPip ==
    /\ authoredTrack \in BOOLEAN
    /\ bbox = [center |-> 0, half |-> 1]
    /\ transformFrames \in PipDatasets
    /\ transforms = NoIntrinsics
    /\ geoXform = NoGeoXform
    /\ ui = InitUi
    /\ xr = InitXr
    /\ preparedTransformFrames = prepare(transformFrames)
    /\ animationPaused \in BOOLEAN
    /\ InitCamera

UiInputEvent ==
    \E name \in InputNames, options \in Options : CommitUi(inputEvent(State, name, options))
\* a frame long enough to finish a transition
UiUpdate == \E move \in Moves : CommitUi(update(State, TimerOne, move))
UiCameraModeRequest == \E value \in Modes : CommitUi(setCameraMode(State, value))
UiScrubAnim == \E time \in ScrubTimes : CommitUi(onScrubAnim(State, time))
PipClick == ~ui.pipHidden /\ CommitUi(onPipToggle(State))
KeyZ == ~(ui.pipHidden /\ ~ui.fullscreenOpen) /\ CommitUi(onPipToggle(State))
FullscreenClick == ui.fullscreenOpen /\ CommitUi(closeFullscreenFrame(State))

NextPip ==
    \/ UiInputEvent
    \/ UiUpdate
    \/ UiCameraModeRequest
    \/ UiScrubAnim
    \/ PipClick
    \/ KeyZ
    \/ FullscreenClick

SpecPip == InitPip /\ [][NextPip]_vars

\* The timeline scrubber.  Its pointer listeners exist once hasAnimation has
\* changed to true; pointer events arrive in any order (a second pointer's
\* events are the same to the listeners).  Other input arrives between
\* gestures, frames are drawn all the time.
GestureTimes == 0..(animationDuration - 1)

InitScrub ==
    /\ authoredTrack \in BOOLEAN
    /\ bbox \in BBoxes
    /\ transformFrames = SubSeq(AllFrames, 1, MaxFrames)
    /\ transforms = NoIntrinsics
    /\ geoXform = NoGeoXform
    /\ ui = InitUi
    /\ xr = InitXr
    /\ preparedTransformFrames = prepare(transformFrames)
    /\ animationPaused \in BOOLEAN
    /\ InitCamera
    /\ hasAnimation

PointerDown == \E time \in GestureTimes : CommitUi(onPointerDown(State, time))
PointerMove == \E time \in GestureTimes : CommitUi(onPointerMove(State, time))
PointerUp == CommitUi(onPointerUp(State))
DrawFrame == \E deltaTime \in {1, TimerOne} : CommitUi(update(State, deltaTime, 0))
BetweenGestures ==
    /\ ~ui.captured
    /\ \/ CommitUi(inputEvent(State, "playPause", [retainCameraMode |-> FALSE]))
       \/ \E value \in Modes : CommitUi(setCameraMode(State, value))

NextScrub ==
    \/ PointerDown
    \/ PointerMove
    \/ PointerUp
    \/ DrawFrame
    \/ BetweenGestures

SpecScrub == InitScrub /\ [][NextScrub]_vars

\* The fading controls: input events, annotation tooltips and the clock.
InitFade ==
    /\ authoredTrack = TRUE
    /\ bbox = [center |-> 0, half |-> 1]
    /\ transformFrames = SubSeq(AllFrames, 1, MaxFrames)
    /\ transforms = NoIntrinsics
    /\ geoXform = NoGeoXform
    /\ ui = InitUi
    /\ xr = InitXr
    /\ preparedTransformFrames = prepare(transformFrames)
    /\ animationPaused = FALSE
    /\ InitCamera

Loaded == CommitUi(showUI(State))
FadeInput ==
    \E name \in {"playPause", "cancel", "nextTransformFrame"} :
        CommitUi(inputEvent(State, name, [retainCameraMode |-> FALSE]))
Second == CommitUi(onSecond(State))
AnnotationShown ==
    \E annotation \in Annotations :
        CommitUi(onAnnotationActivate(uiAnnotation(State, TRUE), annotation))
AnnotationHidden == CommitUi(uiAnnotation(State, FALSE))

NextFade ==
    \/ Loaded
    \/ FadeInput
    \/ Second
    \/ AnnotationShown
    \/ AnnotationHidden

SpecFade == InitFade /\ [][NextFade]_vars

\* The XR session: input sources come and go, their profile loads finish at
\* any later time, presses begin and end, frames are drawn, the session ends.
InitSession == InitFade

CommitXr(x) == xr' = x /\ UNCHANGED cameraVars /\ UNCHANGED ui

XrInputAdd ==
    \E i \in Sources, loads \in BOOLEAN :
        /\ xr.status[i] = "absent"
        /\ CommitXr(onInputAdd(xr, i, loads))
XrProfilesLoaded ==
    \E i \in Sources, renderable \in BOOLEAN :
        /\ xr.setup[i] = "pending"
        /\ CommitXr(onProfilesLoaded(xr, i, renderable))
XrInputRemove ==
    \E i \in Sources :
        /\ xr.status[i] = "added"
        /\ CommitXr(onInputRemove(xr, i))
XrSelectStart ==
    \E i \in xr.inputHandlers, active \in BOOLEAN :
        CommitXr(beginDrag(xr, i, "select", active))
XrSelectEnd ==
    \E i \in xr.inputHandlers, short \in BOOLEAN :
        CommitXr(handleSelectEnd(xr, i, short))
XrSqueezeStart ==
    \E i \in xr.inputHandlers, active \in BOOLEAN :
        CommitXr(beginDrag(xr, i, "squeeze", active))
XrSqueezeEnd == \E i \in xr.inputHandlers : CommitXr(handleSqueezeEnd(xr, i))
XrUpdate ==
    \E known \in SUBSET Sources, far \in SUBSET Sources :
        CommitXr(onXrUpdate(xr, known, far))
XrEnd == CommitXr(onXrEnd(xr))

NextXr ==
    \/ XrInputAdd
    \/ XrProfilesLoaded
    \/ XrInputRemove
    \/ XrSelectStart
    \/ XrSelectEnd
    \/ XrSqueezeStart
    \/ XrSqueezeEnd
    \/ XrUpdate
    \/ XrEnd

SpecXr == InitSession /\ [][NextXr]_vars


\* ------------------------------------------------------------ the claims
HasCall(l, op) == \E i \in 1..Len(l) : l[i].op = op
CallsOf(l, op) == {i \in 1..Len(l) : l[i].op = op}
Threw == HasCall(log, "throw")

\* C1: without an animation track the camera mode is never 'anim'; a
\* request that targets 'anim' leaves the mode unchanged.
C1_AnimUnreachableWithoutTrack == hasAnimation \/ cameraMode # "anim"

\* C2: 'cancel' / 'interrupt' handled in 'anim' makes the mode the
\* remembered previous mode; handled in another mode it leaves the mode
\* unchanged.
C2_CancelReverts ==
    [][Cancel => cameraMode' = (IF cameraMode = "anim" THEN fromMode ELSE cameraMode)]_vars

\* a cancel has left 'anim' for the remembered mode 'fly'
C2_Witness ==
    /\ cameraMode = "fly" /\ fromMode = "anim"
    /\ Len(log) = 2 /\ log[1].op = "onExit" /\ log[1].mode = "anim"
    /\ log[2].op = "onEnter" /\ log[2].mode = "fly"

\* a playPause has entered 'anim'
C3_Witness ==
    /\ hasAnimation /\ cameraMode = "anim" /\ ~animationPaused
    /\ Len(log) = 2 /\ log[1].op = "onExit" /\ log[1].mode = "orbit"
    /\ log[2].op = "onEnter" /\ log[2].mode = "anim"

\* C3: with an animation, 'playPause' in 'anim' inverts the pause flag and
\* keeps the mode; in 'orbit' or 'fly' it enters 'anim' with the pause flag
\* false, whatever the flag was.
C3_PlayPause ==
    [][(PlayPause /\ hasAnimation) =>
          /\ cameraMode' = "anim"
          /\ animationPaused' = (IF cameraMode = "anim" THEN ~animationPaused ELSE FALSE)]_vars

\* C4: no sequence of inbound events and update calls raises an error or
\* aborts a handler, in any configuration.
C4_NoHandlerThrows == ~error

\* C5: a mode change from prev to value snapshots the displayed pose as
\* the from-pose, resets the timer to 0, remembers prev, and calls onExit on
\* the prev controller before onEnter on the new one, each exactly once and
\* each with the displayed pose.
C5_ModeChangeProtocol ==
    [][cameraMode' # cameraMode =>
          /\ from' = camera
          /\ transitionTimer' = 0
          /\ fromMode' = cameraMode
          /\ \E i, j \in 1..Len(log') :
                /\ i < j
                /\ CallsOf(log', "onExit") = {i}
                /\ CallsOf(log', "onEnter") = {j}
                /\ log'[i].mode = cameraMode /\ log'[i].pose = camera
                /\ log'[j].mode = cameraMode' /\ log'[j].pose = camera]_vars

\* the state the constructor leaves
Constructed == HasCall(log, "constructor")

\* an initial state with an animation controller
C6_Witness == Constructed /\ hasAnimation /\ cameraMode = "anim"

\* C6: the initial mode is 'anim' with an animation controller, else
\* 'orbit' with the start pose outside the bounding box, else 'fly'; the
\* timer starts at 1 and the displayed pose is the reset pose.
C6_InitialState ==
    Constructed =>
        /\ cameraMode = (IF getAnimTrack # "none" THEN "anim"
                         ELSE IF ~containsPoint(bbox, resetCamera.pos) THEN "orbit"
                         ELSE "fly")
        /\ transitionTimer = TimerOne
        /\ camera = resetCamera

\* an update has completed a transition that moved the camera
C7_Witness ==
    /\ transitionTimer = TimerOne /\ camera = target /\ camera # from
    /\ wasMoving /\ ~Threw /\ previous = camera

\* C7: after an update that leaves the timer at 1 the displayed pose is
\* the target the controller wrote in that update, and a further update
\* with an unchanged target leaves the displayed pose unchanged.  Stated
\* contrapositively: a step that breaks either rule is not an update.
C7_SettledEqualsTarget ==
    [][~(/\ (transitionTimer' = TimerOne => camera' = target')
         /\ (transitionTimer = TimerOne /\ camera = target /\ target' = target)
               => camera' = camera)
          => ~Update]_vars

\* a handler that starts a transition
StartsTransition ==
    Frame \/ Reset \/ Pick \/ AnnotationActivate \/ cameraMode' # cameraMode

\* a reset in 'orbit' has restarted a transition that was in flight
C8_Witness ==
    /\ transitionTimer = 0 /\ from = camera /\ camera # target
    /\ Len(log) = 1 /\ log[1].op = "goto"

\* C8: a transition started while another is in flight takes the displayed
\* pose as its from-pose and restarts the timer at 0; the pose displayed at
\* progress 0 of the new transition is the pose displayed before it.
C8_RestartFromDisplayed ==
    [][/\ (transitionTimer < TimerOne /\ StartsTransition) =>
             (from' = camera /\ transitionTimer' = 0 /\ camera' = camera)
       /\ (transitionTimer' = 0 /\ Steer) => camera' = camera]_vars

\* a transition from 'orbit' into 'anim' has completed while the animation
\* was paused
C9_Witness ==
    /\ cameraMode = "anim" /\ animationPaused /\ fromMode = "orbit"
    /\ transitionTimer = TimerOne /\ camera = target /\ camera # from

\* C9: while update keeps being called with a positive deltaTime and no
\* new transition is triggered, the timer grows by deltaTime * transitionSpeed
\* per update up to 1 and reaches 1, and with the timer at 1 the displayed
\* pose is the controller's target, in every mode.  The growth rule is stated
\* contrapositively: a step with another timer value is not that update.
C9_TransitionCompletes ==
    /\ [](transitionTimer = TimerOne => camera = target)
    /\ [][\A deltaTime \in FineDeltaTimes, move \in SteerMoves :
            (transitionTimer' # Min(TimerOne, transitionTimer + deltaTime * transitionSpeed))
                => ~UpdateWith(deltaTime, move)]_vars
    /\ (transitionTimer < TimerOne) ~> (transitionTimer = TimerOne)

C11_Witness ==
    /\ transformFrameIndex >= 0 /\ ~wasMoving /\ transitionTimer = TimerOne
    /\ previous = camera /\ log = <<>>

\* C11: the automatic rematch runs at most once between two moving updates
\* and not before the first: it runs only with wasMoving set, it clears
\* wasMoving, and only an update that moves the displayed pose sets it again.
C11_RematchOncePerSettle ==
    /\ [](Constructed => ~wasMoving)
    /\ [][/\ HasCall(log', "rematch") => (wasMoving /\ ~wasMoving')
          /\ (~wasMoving /\ wasMoving') => (moving(camera, camera') /\ ~HasCall(log', "rematch"))]_vars

\* C12: a selection notification is emitted only after the pose update of
\* its frame: every step that emits 'transformFrame:selected' is an update,
\* so the displayed pose is never older than the published selection.
C12_SelectionAfterPoseUpdate ==
    [][HasCall(log', "emit") => Update]_vars

\* the notification that entry i of the log l is the one for the selected
\* frame: its index, the number of prepared frames, the frame's file path
\* and colmap id
IsSelectionOf(l, i, index) ==
    /\ l[i].op = "emit"
    /\ l[i].index = index
    /\ l[i].count = Len(preparedTransformFrames)
    /\ l[i].filePath = preparedTransformFrames[index + 1].frame.file_path
    /\ l[i].colmapImId = preparedTransformFrames[index + 1].frame.colmap_im_id

\* C13: a handler or update that changes the selected index emits, before
\* it returns, a 'transformFrame:selected' notification for the new index,
\* and that is the last notification it emits.
C13_SelectionChangeNotified ==
    [][transformFrameIndex' # transformFrameIndex =>
          \E i \in CallsOf(log', "emit") :
              /\ IsSelectionOf(log', i, transformFrameIndex')
              /\ \A j \in CallsOf(log', "emit") : j <= i]_vars

\* a dataset navigation request that resolves to a valid index
NavigationResolves ==
    /\ Len(preparedTransformFrames) > 0
    /\ \/ PrevTransformFrame
       \/ NextTransformFrame
       \/ GotoNearestTransformFrame
       \/ (transformFrameIndex >= 0 /\ GotoCurrentTransformFrame)

\* C14: after a dataset navigation request that resolves to a valid index,
\* from any mode, the mode is 'orbit', the orbit controller is retargeted to
\* the entry's cached pose, a transition has started from the displayed pose
\* and the selection notification for the index has been emitted.
C14_NavigationStartsTransition ==
    [][NavigationResolves =>
          /\ cameraMode' = "orbit"
          /\ orbit' = PosAng(preparedTransformFrames[transformFrameIndex' + 1].camera)
          /\ transitionTimer' = 0 /\ from' = camera
          /\ \E i \in 1..Len(log') : IsSelectionOf(log', i, transformFrameIndex')]_vars

\* the step has ended in 'orbit', retargeted to pose via goto, with a
\* transition started from the displayed pose
Retargeted(pose) ==
    /\ cameraMode' = "orbit"
    /\ \E i \in CallsOf(log', "goto") : log'[i].pose = pose
    /\ orbit' = PosAng(pose)
    /\ transitionTimer' = 0 /\ from' = camera

\* C15: 'frame', 'reset', 'pick' and 'annotation.activate', from any mode
\* and any transition progress, end in 'orbit' with the orbit controller
\* retargeted via goto (to the framing pose, the reset pose, the pose looking
\* at the picked point, the annotation's pose) and a transition started from
\* the displayed pose.
C15_RetargetStartsTransition ==
    [][/\ Frame => Retargeted(frameCamera)
       /\ Reset => Retargeted(resetCamera)
       /\ \A position \in PickPositions :
             Commit(onPick(State, position)) =>
                 Retargeted(look(camera.pos, position, camera.fov))
       /\ \A annotation \in Annotations :
             Commit(onAnnotationActivate(State, annotation)) =>
                 Retargeted(look(annotation.position, annotation.target, annotation.fov))]_vars

\* the nearest-frame request has been handled with a dataset whose frames
\* all have 2-row matrices
C16_Witness ==
    /\ transformFrames # <<>> /\ preparedTransformFrames = <<>>
    /\ HasCall(log, "match") /\ transformFrameIndex = -1

\* C16: with an empty prepared dataset every navigation request is a no-op:
\* the selected index stays -1, the mode, the transition state and the
\* controllers are unchanged, nothing is emitted, and the matcher returns -1.
C16_EmptyDatasetNoOp ==
    /\ [](preparedTransformFrames = <<>> => transformFrameIndex = -1)
    /\ [][(/\ preparedTransformFrames = <<>>
           /\ \/ PrevTransformFrame \/ NextTransformFrame
              \/ GotoNearestTransformFrame \/ GotoCurrentTransformFrame) =>
             /\ transformFrameIndex' = -1
             /\ UNCHANGED <<cameraMode, fromMode, transitionTimer, from, target, camera,
                            orbit, fly, cursor, error>>
             /\ ~HasCall(log', "emit")
             /\ \A i \in CallsOf(log', "match") : log'[i].index = -1]_vars

\* a sort key is below another: a finite key below a larger one and below
\* +infinity
KeyBelow(a, b) == ~a.inf /\ (b.inf \/ a.n < b.n)

\* C17: the prepared dataset is in ascending order of sort key, frames
\* without a key last, and frames of equal key, two frames without a key
\* included, in ascending order of file path.
C17_PreparedOrder ==
    \A i, j \in 1..Len(preparedTransformFrames) :
        i < j =>
            LET a == preparedTransformFrames[i].frame
                b == preparedTransformFrames[j].frame
            IN  \/ KeyBelow(a.sort_key, b.sort_key)
                \/ /\ a.sort_key = b.sort_key
                   /\ localeCompare(pathOf(a), pathOf(b)) <= 0

\* the calls of the matcher in the log l
MatcherCalls(l) == CallsOf(l, "match") \cup CallsOf(l, "rematch")

\* the matcher has resolved a tie of the minimum score between two
\* candidates
C18_Witness ==
    \E i \in MatcherCalls(log) :
        /\ Len(preparedTransformFrames) >= 2
        /\ log[i].index >= 0
        /\ \E j \in 1..Len(preparedTransformFrames) :
              /\ j > log[i].index + 1
              /\ score(log[i].pose, j) = score(log[i].pose, log[i].index + 1)
              /\ preparedTransformFrames[j] # preparedTransformFrames[log[i].index + 1]

\* C18: the matcher returns -1 for an empty dataset; else it returns an
\* index of minimum composite score over the whole dataset, the earliest
\* such index, and makes it the selected index.
C18_MatcherMinimum ==
    [][/\ \A i \in MatcherCalls(log') :
             LET best == log'[i].index
                 cam == log'[i].pose
                 count == Len(preparedTransformFrames)
             IN  IF count = 0 THEN best = -1
                 ELSE /\ best \in 0..(count - 1)
                      /\ \A j \in 1..count :
                            \/ score(cam, best + 1) < score(cam, j)
                            \/ (score(cam, best + 1) = score(cam, j) /\ best + 1 <= j)
                      /\ (i < Len(log') /\ log'[i + 1].op = "emit")
                            => log'[i + 1].index = best
       /\ (GotoNearestTransformFrame /\ preparedTransformFrames # <<>>) =>
             \E i \in MatcherCalls(log') : transformFrameIndex' = log'[i].index]_vars

\* the candidate's forward vector has a non-negative dot product with the
\* forward vector of cam
Ahead(cam, candidate) == 2 * Abs(cam.ang - candidate.ang) <= AngleHalfTurn

\* candidates a and b are equally far from cam and have the same fov, a is
\* ahead and b is behind
AheadAndBehind(cam, a, b) ==
    LET ca == preparedTransformFrames[a].camera
        cb == preparedTransformFrames[b].camera
    IN  /\ Abs(cam.pos - ca.pos) = Abs(cam.pos - cb.pos)
        /\ ca.fov = cb.fov
        /\ Ahead(cam, ca) /\ ~Ahead(cam, cb)

\* the matcher has chosen the second of two candidates, the first being
\* behind the camera
C19_Witness ==
    \E i \in MatcherCalls(log) :
        /\ Len(preparedTransformFrames) = 2
        /\ AheadAndBehind(log[i].pose, 2, 1)
        /\ log[i].index = 1

\* C19: of two candidates equally far from the live position and of equal
\* fov, one ahead and one behind the live forward vector, the matcher never
\* returns the one behind, whatever their order; when they are the whole
\* dataset it returns the one ahead.
C19_AheadBeatsBehind ==
    [][\A i \in MatcherCalls(log') :
          \A a, b \in 1..Len(preparedTransformFrames) :
              AheadAndBehind(log'[i].pose, a, b) =>
                  /\ log'[i].index # b - 1
                  /\ Len(preparedTransformFrames) = 2 => log'[i].index = a - 1]_vars

\* the last frame of a dataset of several frames is selected and its
\* notification has been emitted
C20_Witness ==
    /\ Len(preparedTransformFrames) >= 2
    /\ transformFrameIndex = Len(preparedTransformFrames) - 1
    /\ \E i \in CallsOf(log, "emit") : log[i].index = transformFrameIndex

\* C20: the selected index is -1 or an index of the prepared dataset; the
\* prepared dataset never changes after construction; every notification
\* emitted has an index of the dataset and the dataset's size as count.
C20_SelectionInRange ==
    /\ [](transformFrameIndex \in -1..(Len(preparedTransformFrames) - 1))
    /\ [](\A i \in CallsOf(log, "emit") :
             /\ log[i].index \in 0..(Len(preparedTransformFrames) - 1)
             /\ log[i].count = Len(preparedTransformFrames))
    /\ [][preparedTransformFrames' = preparedTransformFrames]_vars

\* a transition is half way: an update has advanced the timer after a handler
\* reset it to 0
C21_Witness ==
    /\ transitionTimer \in 1..(TimerOne - 1) /\ from # target /\ ~error

\* C21: the transition timer stays within 0..1; a step that lowers it sets
\* it to 0 and is a handler that starts a transition (the from-pose becomes
\* the displayed pose); an update with deltaTime, called in any reachable
\* state, sets it to min(1, timer + deltaTime * transitionSpeed); so it never
\* decreases between two transition starts.
C21_TimerInRange ==
    /\ [](transitionTimer \in 0..TimerOne)
    /\ [][transitionTimer' < transitionTimer =>
             (transitionTimer' = 0 /\ from' = camera /\ StartsTransition)]_vars
    /\ [](\A deltaTime \in DeltaTimes, move \in Moves :
             update(State, deltaTime, move).transitionTimer
                 = Min(TimerOne, transitionTimer + deltaTime * transitionSpeed))

\* C22: an update hands the active controller dt = 0 exactly when the mode
\* is 'anim' and the animation is paused, and deltaTime otherwise (seen in
\* the controller's advance: the cursor in 'anim', the position in 'orbit'
\* and 'fly'); it sets animationTime to the cursor exactly when the mode is
\* 'anim' and leaves it unchanged in 'orbit' and 'fly'.
C22_ControllerDt ==
    \A deltaTime \in FineDeltaTimes \cup DeltaTimes, move \in SteerMoves :
        LET s == update(State, deltaTime, move)
            dt == IF cameraMode = "anim" /\ animationPaused THEN 0 ELSE deltaTime
        IN  /\ cameraMode = "anim" =>
                /\ s.cursor = (cursor + dt) % animationDuration
                /\ s.animationTime = s.cursor
            /\ cameraMode = "orbit" =>
                /\ s.orbit.pos = clampPos(orbit.pos + move * dt)
                /\ s.animationTime = animationTime
            /\ cameraMode = "fly" =>
                /\ s.fly.pos = clampPos(fly.pos + move * dt)
                /\ s.animationTime = animationTime

\* the matrix of the frame has at least 3 rows and its first three rows
\* are arrays of at least 4 columns
WellFormed(frame) ==
    /\ frame.transform_matrix.array
    /\ Len(frame.transform_matrix.rows) >= 3
    /\ \A i \in 1..3 : frame.transform_matrix.rows[i] \notin {NotAnArray, 0, 1, 2, 3}

\* the frame of transforms.json a prepared frame was made from
RawFrame(prepared) ==
    [file_path |-> prepared.frame.file_path, colmap_im_id |-> prepared.frame.colmap_im_id,
     transform_matrix |-> prepared.frame.transform_matrix]

\* a dataset with a rejected frame and a prepared one, and a navigation
\* request has selected a frame
C23_Witness ==
    /\ preparedTransformFrames # <<>>
    /\ \E k \in 1..Len(transformFrames) :
           /\ ~WellFormed(transformFrames[k])
           /\ extractFrameSortKey(transformFrames[k]) = Num(1)
    /\ HasCall(log, "emit") /\ HasCall(log, "match")

\* C23: a frame of transforms.json is in the prepared dataset if and only
\* if its matrix is well-formed (once per occurrence); no frame makes the
\* preparation or a navigation request fail; the matcher, the notifications
\* and the poses the camera is sent to refer to prepared frames only.
C23_WellFormedOnly ==
    /\ ~error
    /\ \A k \in 1..Len(transformFrames) :
           WellFormed(transformFrames[k]) <=>
               \E i \in 1..Len(preparedTransformFrames) :
                   RawFrame(preparedTransformFrames[i]) = transformFrames[k]
    /\ Len(preparedTransformFrames)
           = Cardinality({k \in 1..Len(transformFrames) : WellFormed(transformFrames[k])})
    /\ \A i \in MatcherCalls(log) :
           log[i].index \in 0..(Len(preparedTransformFrames) - 1) \/ preparedTransformFrames = <<>>
    /\ \A i \in CallsOf(log, "emit") :
           /\ log[i].index \in 0..(Len(preparedTransformFrames) - 1)
           /\ IsSelectionOf(log, i, log[i].index)
    /\ \A i \in CallsOf(log, "goto") :
           \E k \in 1..Len(preparedTransformFrames) :
               log[i].pose = preparedTransformFrames[k].camera

\* the last position of seq that holds a member of set, 0 if there is none
LastIndexOf(seq, set) ==
    LET at == {i \in 1..Len(seq) : seq[i] \in set}
    IN  IF at = {} THEN 0 ELSE CHOOSE i \in at : \A j \in at : j <= i

\* The integer of the token '_<digits>' that ends the file name once its
\* extension is removed, whatever precedes the token; +infinity without one.
TrailingToken(frame) ==
    LET name == SubSeq(pathOf(frame), LastIndexOf(pathOf(frame), {"/", "\\"}) + 1,
                       Len(pathOf(frame)))
        dot == LastIndexOf(name, {"."})
        stem == IF dot > 1 THEN SubSeq(name, 1, dot - 1) ELSE name
        nonDigit == LastIndexOf(stem, {Alphabet[i] : i \in 1..Len(Alphabet)}
                                          \ {Digits[i] : i \in 1..Len(Digits)})
    IN  IF nonDigit >= 1 /\ nonDigit < Len(stem) /\ stem[nonDigit] = "_"
        THEN Num(parseInt(SubSeq(stem, nonDigit + 1, Len(stem))))
        ELSE Infinity

\* C24: the sort key of every prepared frame is the integer of the trailing
\* token '_<digits>' before the extension of its file name, for any prefix
\* of the file name, and +infinity when there is no such token or no
\* file_path.
C24_SortKeyOfTrailingToken ==
    \A i \in 1..Len(preparedTransformFrames) :
        preparedTransformFrames[i].frame.sort_key
            = TrailingToken(preparedTransformFrames[i].frame)

\* a number greater than 0
IsPositive(field) == field.some /\ field.val > 0

\* w, fl_x and camera_angle_x are all positive and give different fields of
\* view; two frames are prepared
C25_Witness ==
    /\ Len(preparedTransformFrames) >= 2
    /\ IsPositive(transforms.w) /\ IsPositive(transforms.fl_x)
    /\ IsPositive(transforms.camera_angle_x)
    /\ angleFov(transforms.camera_angle_x.val) # focalFov(transforms.w.val, transforms.fl_x.val)
    /\ preparedTransformFrames[1].camera.fov = focalFov(transforms.w.val, transforms.fl_x.val)

\* C25: every prepared frame carries the one field of view of the dataset:
\* the one derived from w and fl_x when both are positive numbers, else
\* camera_angle_x in degrees when it is a positive number, else the
\* fallback, the initial field of view of the first camera.
C25_FovPrecedence ==
    \A i \in 1..Len(preparedTransformFrames) :
        preparedTransformFrames[i].camera.fov =
            (CASE IsPositive(transforms.w) /\ IsPositive(transforms.fl_x) ->
                      focalFov(transforms.w.val, transforms.fl_x.val)
               [] ~(IsPositive(transforms.w) /\ IsPositive(transforms.fl_x))
                  /\ IsPositive(transforms.camera_angle_x) ->
                      angleFov(transforms.camera_angle_x.val)
               [] OTHER -> Camera0.fov)

\* a record whose x, y and z are numbers
ThreeNumbers(d) == d.some /\ d.val.x # NotNumber /\ d.val.y # NotNumber /\ d.val.z # NotNumber

\* the re-orientation the precedence direct field, first well-formed
\* candidate, legacy field selects
Preferred(g, d) ==
    \/ ThreeNumbers(g.direct) /\ d = g.direct
    \/ /\ ~ThreeNumbers(g.direct)
       /\ \E i \in 1..Len(g.candidates) :
              /\ ThreeNumbers(g.candidates[i]) /\ d = g.candidates[i]
              /\ \A j \in 1..(i - 1) : ~ThreeNumbers(g.candidates[j])
    \/ /\ ~ThreeNumbers(g.direct)
       /\ \A i \in 1..Len(g.candidates) : ~ThreeNumbers(g.candidates[i])
       /\ ThreeNumbers(g.legacy) /\ d = g.legacy
    \/ /\ ~ThreeNumbers(g.direct)
       /\ \A i \in 1..Len(g.candidates) : ~ThreeNumbers(g.candidates[i])
       /\ ~ThreeNumbers(g.legacy) /\ d = NoXform

\* the direct field and the first candidate are malformed, the second
\* candidate is the half turn about y, the legacy field is well-formed too,
\* and the dataset is prepared reversed
C26_Witness ==
    /\ geoXform.direct.some /\ ~ThreeNumbers(geoXform.direct)
    /\ Len(geoXform.candidates) = 2
    /\ geoXform.candidates[1].some /\ ~ThreeNumbers(geoXform.candidates[1])
    /\ geoXform.candidates[2] = Degrees(Some(0), Some(1), Some(0))
    /\ geoXform.legacy = Degrees(Some(1), Some(0), Some(0))
    /\ \E i \in 1..Len(preparedTransformFrames) : preparedTransformFrames[i].camera.pos < 0

\* C26: the re-orientation applied to the dataset is the direct field if
\* its x, y and z are numbers, else the first candidate of the map, in the
\* map's order, whose x, y and z are numbers, else the legacy field if its
\* x, y and z are numbers, else none; a record with a component that is no
\* number is never applied.
C26_XformPrecedence ==
    /\ Preferred(geoXform, getSceneXformDegrees(geoXform))
    /\ getSceneXformDegrees(geoXform).some => ThreeNumbers(getSceneXformDegrees(geoXform))
    /\ \A i \in 1..Len(preparedTransformFrames) :
           \E d \in XformValues :
               /\ Preferred(geoXform, d)
               /\ preparedTransformFrames[i].camera.pos =
                      (IF d.some /\ (d.val.y.val + d.val.z.val) % 2 = 1 THEN -1 ELSE 1)
                          * preparedTransformFrames[i].frame.transform_matrix.position

\* a scene scaled by the factor k about the origin: the bounding box and
\* every position, and so every distance
ScaledBox(box, k) == [center |-> k * box.center, half |-> k * box.half]
ScaledPose(pose, k) == Pose(k * pose.pos, pose.ang, pose.fov)

\* the first candidate of minimum score in the scene scaled by k
Winner(cam, k) ==
    LET scaled(i) == scoreIn(ScaledBox(bbox, k), ScaledPose(cam, k),
                             ScaledPose(preparedTransformFrames[i].camera, k))
    IN  CHOOSE i \in 1..Len(preparedTransformFrames) :
            \A j \in 1..Len(preparedTransformFrames) :
                scaled(i) < scaled(j) \/ (scaled(i) = scaled(j) /\ i <= j)

\* Every call of the matcher scores each candidate as it would in the scene
\* scaled by k (scores carry the factor sceneScale, so they are compared
\* cross-multiplied) and returns the winner of the scaled scene.
SameUnderScaling(k) ==
    \A m \in MatcherCalls(log) :
        preparedTransformFrames # <<>> =>
            /\ \A i \in 1..Len(preparedTransformFrames) :
                   scoreIn(bbox, log[m].pose, preparedTransformFrames[i].camera)
                           * sceneScale(ScaledBox(bbox, k))
                       = scoreIn(ScaledBox(bbox, k), ScaledPose(log[m].pose, k),
                                 ScaledPose(preparedTransformFrames[i].camera, k))
                           * sceneScale(bbox)
            /\ log[m].index = Winner(log[m].pose, k) - 1

\* C27 as stated: scaling the bounding radius and all distances by a
\* positive factor changes no candidate's score and not the winner, in every
\* scene, the ones whose scale is floored at 1e-3 included.
C27_ScaleInvariant == \A k \in 1..MaxFactor : SameUnderScaling(k)

\* the matcher has run in a scene above the floor, over two candidates at
\* different distances from the camera
C27_Witness ==
    /\ bbox.half >= 1 /\ HasCall(log, "match")
    /\ \E m \in CallsOf(log, "match") :
           \E i, j \in 1..Len(preparedTransformFrames) :
               /\ preparedTransformFrames[i].camera.pos # log[m].pose.pos
               /\ Abs(preparedTransformFrames[i].camera.pos - log[m].pose.pos)
                      # Abs(preparedTransformFrames[j].camera.pos - log[m].pose.pos)

\* C27 amended: scaling the bounding radius and all distances by a positive
\* factor changes no candidate's score and not the winner when twice the
\* bounding radius is at least 1e-3 before and after the scaling.
C27_ScaleInvariantAboveFloor ==
    (bbox.half * 2 * Milli >= 1) => \A k \in 1..MaxFactor : SameUnderScaling(k)

\* the mode is 'anim' and was entered from 'orbit' by a mode change (a viewer
\* that is not an object experience starts with fromMode 'fly')
C28_Witness ==
    /\ cameraMode = "anim" /\ fromMode = "orbit" /\ ~isObjectExperience /\ ~error

\* C28: whenever the mode is 'anim' the remembered previous mode is 'orbit'
\* or 'fly', and a cancel or interrupt handled then leaves 'anim' for it.
C28_AnimFromOrbitOrFly ==
    cameraMode = "anim" =>
        /\ fromMode \in {"orbit", "fly"}
        /\ onCancel(State).cameraMode = fromMode
        /\ onCancel(State).cameraMode # "anim"

\* C29: in every update made while the mode is 'anim' and the animation is
\* paused, the transition timer advances by the raw deltaTime (up to 1), and
\* so does the settle timer of a camera that has stopped moving, which
\* triggers the automatic rematch once it reaches the settle delay.
C29_RawDeltaTime ==
    (cameraMode = "anim" /\ animationPaused) =>
        \A deltaTime \in DeltaTimes \cup FineDeltaTimes, move \in SteerMoves :
            LET s == update(State, deltaTime, move)
            IN  /\ s.transitionTimer
                       = Min(TimerOne, transitionTimer + deltaTime * transitionSpeed)
                /\ (wasMoving /\ ~moving(previous, s.camera)) =>
                       IF settledTime + deltaTime >= settleDelaySeconds
                       THEN HasCall(s.log, "rematch") /\ ~s.wasMoving /\ s.settledTime = 0
                       ELSE s.wasMoving /\ s.settledTime = settledTime + deltaTime

\* the state a handler leaves, as the next handler finds it
Handled(s) == [s EXCEPT !.log = <<>>, !.thrown = FALSE]

\* a step from a current selection (no matcher call) has selected index 0 of
\* three prepared frames: next from the last frame or previous from index 1
C30_Witness ==
    /\ Len(preparedTransformFrames) = 3 /\ transformFrameIndex = 0
    /\ ~HasCall(log, "match") /\ ~HasCall(log, "rematch")
    /\ \E i \in CallsOf(log, "emit") : log[i].index = 0

\* C30: with a current selection i among n >= 1 prepared frames,
\* nextTransformFrame selects (i+1) mod n and prevTransformFrame selects
\* (i-1+n) mod n: next from the last frame selects index 0, previous from
\* index 0 selects n-1, and next then previous, or previous then next,
\* selects i again.
C30_StepWraps ==
    LET n == Len(preparedTransformFrames)
        i == transformFrameIndex
        next == stepTransformFrame(State, 1)
        prev == stepTransformFrame(State, -1)
    IN  (n >= 1 /\ i >= 0) =>
            /\ next.transformFrameIndex = (i + 1) % n
            /\ prev.transformFrameIndex = (i - 1 + n) % n
            /\ i = n - 1 => next.transformFrameIndex = 0
            /\ i = 0 => prev.transformFrameIndex = n - 1
            /\ stepTransformFrame(Handled(next), -1).transformFrameIndex = i
            /\ stepTransformFrame(Handled(prev), 1).transformFrameIndex = i

\* C31: with no current selection and a non-empty dataset, a next or
\* previous request runs the matcher, which selects the nearest frame k and
\* emits a notification for it, then selects the neighbour (k+1) mod n or
\* (k-1+n) mod n, sends the camera to that neighbour and emits a second
\* notification: two notifications for the one request.
C31_StepFromNoSelection ==
    LET n == Len(preparedTransformFrames)
    IN  (transformFrameIndex < 0 /\ n >= 1) =>
            \A step \in {-1, 1} :
                LET s == stepTransformFrame(State, step)
                    k == bestIndexFor(camera)
                    j == (k + step + n) % n
                    emits == CallsOf(s.log, "emit")
                IN  /\ s.transformFrameIndex = j
                    /\ Cardinality(emits) = 2
                    /\ \E m \in CallsOf(s.log, "match"), a, b \in emits :
                           /\ m < a /\ a < b
                           /\ s.log[m].index = k
                           /\ IsSelectionOf(s.log, a, k)
                           /\ IsSelectionOf(s.log, b, j)
                    /\ \E g \in CallsOf(s.log, "goto") :
                           s.log[g].pose = preparedTransformFrames[j + 1].camera

\* the automatic rematch has selected a frame
C32_Witness ==
    /\ transformFrameIndex >= 0
    /\ \E i \in CallsOf(log, "rematch") : log[i].index = transformFrameIndex

\* C32: once the selected index is non-negative it stays an index of the
\* dataset: no handler and no update sets it back to -1, and the automatic
\* rematch replaces it by the in-range index it returns.
C32_SelectionNeverCleared ==
    /\ [][transformFrameIndex >= 0 =>
             transformFrameIndex' \in 0..(Len(preparedTransformFrames) - 1)]_vars
    /\ [][\A i \in CallsOf(log', "rematch") :
             preparedTransformFrames # <<>> =>
                 /\ log'[i].index \in 0..(Len(preparedTransformFrames) - 1)
                 /\ transformFrameIndex' = log'[i].index]_vars

\* C33: a gotoCurrentTransformFrame request made with the option
\* retainCameraMode: true leaves the camera mode as it was and retargets the
\* camera to the selected frame.
C33_RetainCameraMode ==
    transformFrameIndex >= 0 =>
        LET s == onGotoCurrentTransformFrame(State, [retainCameraMode |-> TRUE])
        IN  /\ s.cameraMode = cameraMode
            /\ \E g \in CallsOf(s.log, "goto") :
                   s.log[g].pose = preparedTransformFrames[transformFrameIndex + 1].camera

\* a viewer just constructed around an object, without an authored track:
\* the generated rotate track makes the initial mode 'anim'
C34_Witness ==
    /\ Constructed /\ isObjectExperience /\ ~authoredTrack
    /\ cameraMode = "anim" /\ fromMode = "orbit"

\* C34: with the start pose outside the bounding box an animation controller
\* exists (the authored track or a generated rotate track), so the initial
\* mode is 'anim'; the initial mode is 'orbit' in no configuration, and
\* 'orbit' occurs at startup only as the remembered previous mode.
C34_OrbitNeverInitial ==
    Constructed =>
        /\ isObjectExperience =>
               (getAnimTrack \in {"authored", "rotate"} /\ hasController("anim")
                   /\ cameraMode = "anim" /\ fromMode = "orbit")
        /\ cameraMode # "orbit"
        /\ ~isObjectExperience => fromMode = "fly"

\* the fullscreen viewer is open on a selected frame, in a paused animation
C35_Witness ==
    /\ ui.fullscreenOpen /\ ui.selectedFramePath.some
    /\ cameraMode = "anim" /\ animationPaused

\* C35: the fullscreen frame viewer is open only while a frame path is
\* selected and the animation is not running, and the thumbnail is visible
\* exactly when a path is selected and the animation is not running.
C35_PipOpenOnlyWhenShown ==
    /\ ui.fullscreenOpen => (ui.selectedFramePath.some /\ ~isAnimationRunning(State))
    /\ ~ui.pipHidden <=> (ui.selectedFramePath.some /\ ~isAnimationRunning(State))

C37_FadeAfterFiveSeconds ==
    /\ ui.controlsHidden => ui.idle >= FadeSeconds
    /\ Cardinality(ui.timers) <= 1
    /\ ui.timers = (IF ui.uiTimeout = NoTimeout THEN {} ELSE {ui.uiTimeout})
    /\ \A name \in InputNames :
           LET s == inputEvent(State, name, [retainCameraMode |-> FALSE])
           IN  ~s.ui.controlsHidden /\ s.ui.timers = {UiTimeoutSeconds}
    /\ 1 \in ui.timers =>
           /\ onSecond(State).ui.timers = {}
           /\ onSecond(State).ui.controlsHidden = (ui.controlsHidden \/ ~ui.annotationVisible)

\* C38: for every XR input source, once its 'remove' event has been handled
\* and the profile loads started by its 'add' event have finished, the
\* controllers map holds no entry for it and no controller entity created
\* for it is attached to the scene, however the removal and the pending
\* load interleave.
C38_NoControllerAfterRemove ==
    \A i \in Sources :
        (xr.status[i] = "removed" /\ xr.setup[i] # "pending")
            => (i \notin xr.controllers /\ i \notin xr.attached)

\* C39: the set of inputs marked as moved holds an input source only while
\* that source has a drag record (after a select end, a squeeze end or the
\* removal of the source no mark for it remains), so a short select click
\* that has not moved teleports, whatever movement an earlier press saw.
C39_MovedOnlyWhileDragging ==
    /\ xr.movedInputs \subseteq {i \in Sources : xr.dragState[i].some}
    /\ \A i \in Sources :
        (xr.dragState[i].some /\ xr.dragState[i].mode = "select"
            /\ ~xr.dragState[i].moved)
            => i \in handleSelectEnd(xr, i, TRUE).teleported

====
